---- MODULE Spec2Model ----
(***************************************************************************)
(* State-machine model of the iOS / webview input path of scrcpy-vscode:   *)
(*   - WDAClient          (unnamed/part_008)  HTTP control session         *)
(*   - iOSConnection      (src/ios/iOSConnection.ts)  helper stream framing*)
(*   - InputHandler       (unnamed/part_009)  two-finger touch translation *)
(*                                                                         *)
(* An async method is a call record with a program position (pc); one      *)
(* action runs the code between two awaits.  An HTTP request is a record   *)
(* that stays in reqs from fetch() until request()'s finally block ran.    *)
(***************************************************************************)
EXTENDS Integers, Sequences, FiniteSets, TLC

\* ------------------------------------------------------------------------
\* Bounds of the model
\* ------------------------------------------------------------------------
MaxCalls == 2        \* public WDAClient calls per behaviour (concurrent)
MaxDisconnects == 1  \* disconnect() calls per behaviour
MaxSeqCalls == 4     \* awaited touch calls per behaviour (sequential)
MaxPairs == 1        \* unawaited touch('down'), touch('up') pairs per behaviour
MaxScrollCalls == 2  \* awaited scroll calls per behaviour
MaxMsgs == 2         \* framed messages the helper writes per behaviour
MaxPayload == 1      \* payload bytes per framed message
MaxTouchEvents == 4  \* touch events dispatched to the canvas per behaviour
MaxWheelEvents == 3  \* wheel events dispatched to the canvas per behaviour
MaxPointerEvents == 4 \* pointer events dispatched to the canvas per behaviour
MaxDisposeEvents == 2 \* events dispatched to a canvas whose handler is disposed of
MaxStateOps == 4     \* mutations of the application state per behaviour
MaxRuns == 2         \* start() calls of the WDA setup manager per behaviour
MaxCancels == 1      \* cancel() calls of the WDA setup manager per behaviour
MaxStreams == 2      \* startStreaming() calls of an iOS connection per behaviour
MaxPieces == 3       \* start-code units and filler bytes a classified buffer is built of
MaxMbs == 2          \* macroblocks per row and map units per column of a parsed SPS
MaxCrop == 1         \* largest frame-cropping offset of a parsed SPS
MaxRetries == 3      \* largest configured retry count of a transport session
MaxDrops == 3        \* sockets a transport session loses per behaviour
MaxKeyEvents == 6    \* keyboard events, focus changes and idle timeouts per behaviour
MaxTextLen == 2      \* length at which the text buffer is flushed (300 in the tests)
CanvasSize == 2      \* width and height of the canvas rectangle, in client pixels

\* ------------------------------------------------------------------------
\* Program constants
\* ------------------------------------------------------------------------
\* `distance < 10` of WDAClient.touch, in pixels
TAP_DISTANCE == 10
\* enum MessageType of iOSConnection.ts
MT_DEVICE_INFO == 2
MT_VIDEO_CONFIG == 3
MT_VIDEO_FRAME == 4
MT_ERROR == 5
MT_STATUS == 6
\* type byte + 4 length bytes
HEADER_SIZE == 5
\* min(0.5, ...) of WDAClient.scroll, in thousandths of the screen
SCROLL_CAP == 500
\* `> 0.001` of WDAClient.scroll, in thousandths
SCROLL_EPS == 1

\* InputHandler.onWheelEvent: factors of DOM_DELTA_LINE and DOM_DELTA_PAGE deltas
LINE_HEIGHT == 16
PAGE_HEIGHT == 100
\* InputHandler.processScrollBuffer: THRESHOLD = 0.0001, in units of 1/20000
\* (wheel deltas are in units of 1/100 pixel, SCROLL_STEP = 200)
SCROLL_THRESHOLD == 2
\* InputHandler: moveThrottleMs
MOVE_THROTTLE_MS == 16
\* WDASetupManager.parseOutput: `this.recentOutput.length > 50`
RECENT_OUTPUT_MAX == 50

\* CodecUtils: H264NALUnitType and H265NALUnitType
H264_IDR == 5
H264_SPS == 7
H265_VPS == 32
H265_SPS == 33
H265_PPS == 34
H265_IDR_W_RADL == 19
H265_IDR_N_LP == 20

VARIABLES
  \* ---- WDAClient fields ----
  sessionId,        \* this.sessionId: 0 is null, n > 0 the n-th remote session
  abortController,  \* this.abortController: 0 is null, r > 0 the controller of request r
  touchActive,      \* this.touchActive
  touchStartX,      \* this.touchStartX (half pixels)
  touchStartY,      \* this.touchStartY (half pixels)
  \* ---- WDAClient: pending async calls, requests in flight ----
  calls,            \* call id -> call record (pending promises of public methods)
  reqs,             \* request id -> request record (fetch issued, finally not yet run)
  nextCall,         \* number of public calls started so far + 1
  nextReq,          \* number of requests issued so far + 1
  nextSid,          \* number of sessions the server has handed out + 1
  nDisc,            \* number of disconnect() calls so far
  \* ---- history of the WDA behaviour (observation only) ----
  lastSettled,      \* the request that settled last: [kind, out, result]
  touchLog,         \* the touch calls of an awaiting caller: [act, x, y, ran]
  gestures,         \* the gesture requests of those calls: [at, body]
  deleteIssued,     \* session ids for which a DELETE has been issued
  errSids,          \* session ids for which an action request got an error response
  retiredSids,      \* session ids that were stored when disconnect() ran
  discInflight,     \* request ids that were in flight when disconnect() last ran
  staleUse          \* TRUE once a non-DELETE request used a retired session id

wdaVars == <<sessionId, abortController, touchActive, touchStartX, touchStartY,
             calls, reqs, nextCall, nextReq, nextSid, nDisc,
             lastSettled, touchLog, gestures, deleteIssued,
             errSids, retiredSids, discInflight, staleUse>>

VARIABLES
  \* ---- iOSConnection: framing of the helper's stdout ----
  messageBuffer,    \* this.messageBuffer: bytes received and not yet consumed
  wire,             \* bytes the helper has written and stdout has not delivered yet
  sentMsgs,         \* the messages the helper wrote (writeMessage), in order
  dispatched,       \* the calls of processMessage so far: [type, payload]
  cbLog             \* the callbacks processMessage has invoked, in order

frameVars == <<messageBuffer, wire, sentMsgs, dispatched, cbLog>>

VARIABLES
  \* ---- InputHandler: two-finger touch state ----
  isPinching,            \* this.isPinching
  activeTouches,         \* this.activeTouches: Map in insertion order, [id, pt]
  initialPinchDistance,  \* this.initialPinchDistance, squared
  hasMultiTouch,         \* whether the onMultiTouch callback was given
  mtLog,                 \* the calls of onMultiTouch so far: [action, p1, p2]
  evLog                  \* the touch events dispatched to the canvas so far

inputVars == <<isPinching, activeTouches, initialPinchDistance, hasMultiTouch,
               mtLog, evLog>>

VARIABLES
  \* ---- the touch surface the canvas is part of ----
  screen            \* contacts now on the surface, oldest first: [id, x, y, on]

VARIABLES
  \* ---- InputHandler: wheel accumulation ----
  scrollBufferX,    \* this.scrollBufferX
  scrollBufferY,    \* this.scrollBufferY
  lastScroll,       \* <<this.lastScrollX, this.lastScrollY>>
  scrollRafId,      \* this.scrollRafId: 0 for null, else the id of the frame request
  rafQueue,         \* frame requests the browser holds for the next animation frame
  scrollLog,        \* the calls of onScroll so far: [frame, x, y, dx, dy]
  wheelLog,         \* the wheel events so far: [frame, calls, dx, dy, mode]
  frameNo           \* animation frames run so far

wheelVars == <<scrollBufferX, scrollBufferY, lastScroll, scrollRafId, rafQueue,
               scrollLog, wheelLog, frameNo>>

VARIABLES
  \* ---- KeyboardHandler ----
  focused,          \* whether the canvas has keyboard focus
  textBuffer,       \* printable characters typed and not yet delivered
  pressedKeys,      \* special keys whose key-down was delivered and not released
  kbLog,            \* the callbacks so far: [cb, arg, at]
  typed,            \* every printable character buffered so far: [ch, at]
  kbSteps           \* keyboard events, focus changes and idle timeouts so far

kbVars == <<focused, textBuffer, pressedKeys, kbLog, typed, kbSteps>>

VARIABLES
  \* ---- CodecUtils: a buffer under classification ----
  cdata,            \* the Uint8Array handed to CodecUtils
  cresult           \* <<what the static methods returned for it>>; <<>> before the calls

codecVars == <<cdata, cresult>>

VARIABLES
  \* ---- CodecUtils.parseH264SPSDimensions: a parsed parameter set ----
  sps,              \* <<the record parseSPS returned>>; <<>> when none is under study
  spsDims           \* <<the {width, height} returned for it>>; <<>> before the call

spsVars == <<sps, spsDims>>

VARIABLES
  \* ---- Primary Transport Session: reconnection policy ----
  autoReconnect,    \* configuration: reconnect on a lost socket
  retries,          \* configuration: R, the retry count
  connStatus,       \* "Streaming" | "Reconnecting" | "Closed"
  attempts,         \* handshakes that failed since the socket was lost
  reported,         \* terminal errors surfaced to the caller
  drops,            \* sockets lost so far
  connLog           \* history: "lost", "fail", "ok", "closed"

reconnVars == <<autoReconnect, retries, connStatus, attempts, reported, drops, connLog>>

VARIABLES
  \* ---- InputHandler: pointer tracking, listeners ----
  isPointerDown,    \* this.isPointerDown
  pointerId,        \* this.pointerId: 0 is null
  lastMoveTime,     \* this.lastMoveTime, in ms
  clock,            \* performance.now(), in ms
  disposed,         \* dispose() has run: the listeners are removed
  inputLog,         \* the onInput calls made so far: [action, x, y]
  lastPtrEvent,     \* the pointer event dispatched last: [type, id]
  ptrEvents         \* pointer events dispatched so far

pointerVars == <<isPointerDown, pointerId, lastMoveTime, clock, disposed,
                 inputLog, lastPtrEvent, ptrEvents>>

VARIABLES
  \* ---- AppStateManager ----
  devices,          \* state.devices: deviceId -> [serial, isActive]
  activeDeviceId,   \* state.activeDeviceId: "null" is null
  deviceInfo,       \* state.deviceInfo: the serials that have an entry
  notifyScheduled,  \* this.notifyScheduled
  lastOp,           \* the mutation called last (observation only)
  stateOps,         \* mutations called so far
  changedOps        \* stateOps of the last mutation that changed the snapshot state

appVars == <<devices, activeDeviceId, deviceInfo, notifyScheduled, lastOp, stateOps,
             changedOps>>

VARIABLE
  \* ---- KeyboardHandler: listeners ----
  kbDisposed        \* dispose() has run

\* the components that follow the codec classification
VARIABLES
  \* ---- AppStateManager: listeners and monitoring ----
  isMonitoring,     \* state.isMonitoring
  monitorOps,       \* stateOps of the last setMonitoring that changed isMonitoring
  listeners,        \* this.listeners in insertion order: the kind of each listener
  delivered,        \* per listener: calls received, snapshot received last
  notifiedOps       \* stateOps when the last snapshot was taken

notifyVars == <<isMonitoring, monitorOps, listeners, delivered, notifiedOps>>

VARIABLES
  \* ---- WDASetupManager ----
  process,            \* this.process: 0 is null, p > 0 the p-th child process
  currentState,       \* this.currentState
  outputBuffer,       \* this.outputBuffer
  recentOutput,       \* this.recentOutput: the lines seen, oldest first
  pendingUserAction,  \* this.pendingUserAction
  lastInstructions,   \* this.lastInstructions: "none" is []
  children,           \* child id -> [script, out, closed, errored, signals]
  killTimers,         \* pending setTimeout callbacks of cancel()
  cancelledProcs,     \* the children that were this.process when cancel() ran
  nCancel,            \* cancel() calls so far
  setupLog            \* events emitted: [ev, state, action, instr, src]

setupVars == <<process, currentState, outputBuffer, recentOutput, pendingUserAction,
               lastInstructions, children, killTimers, cancelledProcs, nCancel, setupLog>>

VARIABLES
  \* ---- iOSConnection: the helper process ----
  helperProcess,      \* this.helperProcess: 0 is null, h > 0 the h-th helper
  connected,          \* this._connected
  helpers             \* helper id -> [wire, killed, closed, errored]

streamVars == <<helperProcess, connected, helpers>>

\* the components added last
lateVars == <<notifyVars, setupVars, streamVars>>

extraVars == <<spsVars, reconnVars, pointerVars, appVars, kbDisposed, lateVars>>

moreVars == <<screen, wheelVars, kbVars, codecVars, extraVars>>

\* everything the touch handlers of InputHandler leave alone
notTouchVars == <<wdaVars, frameVars, wheelVars, kbVars, codecVars, extraVars>>

vars == <<wdaVars, frameVars, inputVars, moreVars>>

\* iOSConnection after construction: `messageBuffer = Buffer.alloc(0)`
FrameIdle ==
  /\ messageBuffer = <<>>
  /\ wire = <<>>
  /\ sentMsgs = <<>>
  /\ dispatched = <<>>
  /\ cbLog = <<>>

\* InputHandler after construction with all callbacks given
InputIdle ==
  /\ isPinching = FALSE
  /\ activeTouches = <<>>
  /\ initialPinchDistance = 0
  /\ hasMultiTouch = TRUE
  /\ mtLog = <<>>
  /\ evLog = <<>>

\* no contact on the touch surface
SurfaceIdle == screen = <<>>

\* InputHandler after construction: scroll fields at their initialisers
WheelIdle ==
  /\ scrollBufferX = 0
  /\ scrollBufferY = 0
  /\ lastScroll = <<0, 0>>
  /\ scrollRafId = 0
  /\ rafQueue = <<>>
  /\ scrollLog = <<>>
  /\ wheelLog = <<>>
  /\ frameNo = 0

\* KeyboardHandler after construction: not focused, nothing buffered
KbIdle ==
  /\ focused = FALSE
  /\ textBuffer = <<>>
  /\ pressedKeys = {}
  /\ kbLog = <<>>
  /\ typed = <<>>
  /\ kbSteps = 0

\* no buffer under classification
CodecIdle ==
  /\ cdata = <<>>
  /\ cresult = <<>>

\* no parsed parameter set under study
SpsIdle ==
  /\ sps = <<>>
  /\ spsDims = <<>>

\* a session that streams and never lost its socket
ReconnIdle ==
  /\ autoReconnect = FALSE
  /\ retries = 0
  /\ connStatus = "Streaming"
  /\ attempts = 0
  /\ reported = 0
  /\ drops = 0
  /\ connLog = <<>>

\* InputHandler after construction: no pointer tracked, listeners attached
PointerIdle ==
  /\ isPointerDown = FALSE
  /\ pointerId = 0
  /\ lastMoveTime = 0
  /\ clock = 0
  /\ disposed = FALSE
  /\ inputLog = <<>>
  /\ lastPtrEvent = [type |-> "none", id |-> 0]
  /\ ptrEvents = 0

NoOp == [op |-> "none", id |-> "null", existed |-> FALSE, hadInfo |-> FALSE,
         wasActive |-> FALSE]

\* AppStateManager after construction
AppIdle ==
  /\ devices = <<>>
  /\ activeDeviceId = "null"
  /\ deviceInfo = {}
  /\ notifyScheduled = FALSE
  /\ lastOp = NoOp
  /\ stateOps = 0
  /\ changedOps = 0

NoSnapshot == [devices |-> <<>>, activeDeviceId |-> "null", deviceInfo |-> {}]

\* no listener subscribed, monitoring off
NotifyIdle ==
  /\ isMonitoring = FALSE
  /\ monitorOps = 0
  /\ listeners = <<>>
  /\ delivered = <<>>
  /\ notifiedOps = 0

\* WDASetupManager after construction
SetupIdle ==
  /\ process = 0
  /\ currentState = "idle"
  /\ outputBuffer = <<>>
  /\ recentOutput = <<>>
  /\ pendingUserAction = FALSE
  /\ lastInstructions = "none"
  /\ children = <<>>
  /\ killTimers = 0
  /\ cancelledProcs = {}
  /\ nCancel = 0
  /\ setupLog = <<>>

\* iOSConnection after construction
StreamIdle ==
  /\ helperProcess = 0
  /\ connected = FALSE
  /\ helpers = <<>>

LateIdle == NotifyIdle /\ SetupIdle /\ StreamIdle

ExtraIdle ==
  SpsIdle /\ ReconnIdle /\ PointerIdle /\ AppIdle /\ kbDisposed = FALSE /\ LateIdle

MoreIdle == SurfaceIdle /\ WheelIdle /\ KbIdle /\ CodecIdle /\ ExtraIdle

\* ------------------------------------------------------------------------
\* Input domains
\* ------------------------------------------------------------------------
TouchActions == {"down", "move", "up"}

\* Touch points in half pixels.  <<0,0>> -> <<12,16>> is exactly 10 px,
\* <<0,0>> -> <<12,15>> is just below 10 px, <<1,0>> is (0.5, 0).
Points == {<<0, 0>>, <<1, 0>>, <<12, 15>>, <<12, 16>>}

\* the point used where calls overlap
OverlapPoints == {<<12, 16>>}

\* Scroll deltas in thousandths
ScrollDeltas == {<<0, 1>>, <<-300, 2>>}

OneShotOps == {"typeText", "pressButton", "getWindowSize"}

Abs(n) == IF n < 0 THEN -n ELSE n
Min(a, b) == IF a < b THEN a ELSE b

\* Math.round on a value given in half pixels: rounds to the nearest integer
\* pixel, halves towards +infinity.
Round(v) == (v + 1) \div 2

\* the comparison of touch() written as `distance <= 10`
IsTapInclusive(x0, y0, x1, y1) ==
  (x1 - x0) * (x1 - x0) + (y1 - y0) * (y1 - y0)
     <= (2 * TAP_DISTANCE) * (2 * TAP_DISTANCE)

\* distance < 10, with distance = sqrt(dx^2 + dy^2); arguments in half pixels
IsTap(x0, y0, x1, y1) ==
  (x1 - x0) * (x1 - x0) + (y1 - y0) * (y1 - y0)
     < (2 * TAP_DISTANCE) * (2 * TAP_DISTANCE)

\* body of performTap: one pointer chain at (round x, round y)
TapBody(x, y) == <<"tap", Round(x), Round(y), Round(x), Round(y)>>

\* body of performSwipe: press at rounded start, move to rounded end
SwipeBody(x0, y0, x1, y1) == <<"swipe", Round(x0), Round(y0), Round(x1), Round(y1)>>

\* the gesture request touch('up', x, y) issues
GestureBody(x0, y0, x1, y1) ==
  IF IsTap(x0, y0, x1, y1) THEN TapBody(x0, y0) ELSE SwipeBody(x0, y0, x1, y1)

\* scroll() with `absY > absX` for the vertical branch
ScrollBodyStrict(dx, dy) ==
  IF Abs(dy) > Abs(dx) /\ Abs(dy) > SCROLL_EPS
  THEN <<"scroll", IF dy > 0 THEN "up" ELSE "down", Min(SCROLL_CAP, Abs(dy) * 2)>>
  ELSE IF Abs(dx) > SCROLL_EPS
       THEN <<"scroll", IF dx > 0 THEN "left" ELSE "right", Min(SCROLL_CAP, Abs(dx) * 2)>>
       ELSE <<>>

\* the request scroll(_, _, dx, dy) issues, <<>> when it issues none
ScrollBody(dx, dy) ==
  IF Abs(dy) >= Abs(dx) /\ Abs(dy) > SCROLL_EPS
  THEN <<"scroll", IF dy > 0 THEN "up" ELSE "down", Min(SCROLL_CAP, Abs(dy) * 2)>>
  ELSE IF Abs(dx) > SCROLL_EPS
       THEN <<"scroll", IF dx > 0 THEN "left" ELSE "right", Min(SCROLL_CAP, Abs(dx) * 2)>>
       ELSE <<>>


\* ------------------------------------------------------------------------
\* WDAClient: records
\* ------------------------------------------------------------------------
EmptyMap == [k \in {} |-> 0]
Remove(f, k) == [j \in DOMAIN f \ {k} |-> f[j]]

\* control calls that start with `await this.ensureSession()`
SessionOps == {"touch", "scroll", "ensureSession"} \cup OneShotOps
AllOps == SessionOps \cup {"createSession", "deleteSession"}

\* sent counts the action requests the call has issued, errAtStart holds the
\* session ids known to be broken when the call was made, li is the call's
\* index in touchLog (0: not logged)
NewCall(op, act, x, y, dx, dy, pc, sid, req, li) ==
  [op |-> op, act |-> act, x |-> x, y |-> y, dx |-> dx, dy |-> dy,
   pc |-> pc, sid |-> sid, req |-> req, li |-> li,
   sent |-> 0, errAtStart |-> errSids]

\* a request from `fetch(url, options)` until request()'s finally has run:
\* aborted is the state of its AbortController's signal, timer whether its
\* setTimeout is still armed, expired whether that timeout has elapsed
NewReq(kind, sid, owner, body) ==
  [kind |-> kind, sid |-> sid, owner |-> owner, body |-> body,
   aborted |-> FALSE, timer |-> TRUE, expired |-> FALSE]

\* result: what the settling did to the promise of the method that issued the
\* request ("fulfilled", "rejected", or "pending" when the method goes on)
NoSettled == [kind |-> "none", out |-> "none", result |-> "none"]

\* request(): `this.abortController = new AbortController()`, setTimeout, fetch
IssueReq(kind, sid, owner, body) ==
  /\ reqs' = reqs @@ (nextReq :> NewReq(kind, sid, owner, body))
  /\ abortController' = nextReq
  /\ nextReq' = nextReq + 1
  /\ deleteIssued' = IF kind = "delete" THEN deleteIssued \cup {sid} ELSE deleteIssued
  /\ staleUse' = (staleUse \/ (kind = "action" /\ sid \in retiredSids))

NoReq == UNCHANGED <<reqs, abortController, nextReq, deleteIssued, staleUse>>

\* ------------------------------------------------------------------------
\* WDAClient: initial state (field initialisers and constructor)
\* ------------------------------------------------------------------------
InitWDA ==
  /\ sessionId = 0
  /\ abortController = 0
  /\ touchActive = FALSE
  /\ touchStartX = 0
  /\ touchStartY = 0
  /\ calls = EmptyMap
  /\ reqs = EmptyMap
  /\ nextCall = 1
  /\ nextReq = 1
  /\ nextSid = 1
  /\ nDisc = 0
  /\ lastSettled = NoSettled
  /\ touchLog = <<>>
  /\ gestures = <<>>
  /\ deleteIssued = {}
  /\ errSids = {}
  /\ retiredSids = {}
  /\ discInflight = {}
  /\ staleUse = FALSE

\* ensureSession() without the test of the stored id
StartBodyNoReuse(op, act, x, y, dx, dy, logged) ==
  LET c  == nextCall
      li == IF logged THEN Len(touchLog) + 1 ELSE 0
      noop == op = "deleteSession" /\ sessionId = 0
      needsCreate == op = "createSession" \/ op \in SessionOps
  IN
  /\ nextCall' = c + 1
  /\ touchLog' = IF logged
                 THEN Append(touchLog, [act |-> act, x |-> x, y |-> y, ran |-> FALSE])
                 ELSE touchLog
  /\ IF noop
     THEN /\ NoReq
          /\ UNCHANGED calls
     ELSE IF op = "deleteSession"
     THEN /\ IssueReq("delete", sessionId, c, <<"delete">>)
          /\ calls' = calls @@
               (c :> NewCall(op, act, x, y, dx, dy, "awaitDelete", sessionId, nextReq, li))
     ELSE IF needsCreate
     THEN /\ IssueReq("create", 0, c, <<"create">>)
          /\ calls' = calls @@
               (c :> NewCall(op, act, x, y, dx, dy, "awaitCreate", 0, nextReq, li))
     ELSE /\ NoReq
          /\ calls' = calls @@
               (c :> NewCall(op, act, x, y, dx, dy, "resume", sessionId, 0, li))
  /\ UNCHANGED <<sessionId, touchActive, touchStartX, touchStartY, nextSid, nDisc,
                 lastSettled, gestures, errSids, retiredSids, discInflight>>
  /\ UNCHANGED <<frameVars, inputVars, moreVars>>

\* ------------------------------------------------------------------------
\* WDAClient: a public method is called; runs up to its first await.
\* ensureSession(): stored id -> resolved promise, else createSession().
\* ------------------------------------------------------------------------
StartBody(op, act, x, y, dx, dy, logged) ==
  LET c  == nextCall
      li == IF logged THEN Len(touchLog) + 1 ELSE 0
      noop == op = "deleteSession" /\ sessionId = 0
      needsCreate == op = "createSession" \/ (op \in SessionOps /\ sessionId = 0)
  IN
  /\ nextCall' = c + 1
  /\ touchLog' = IF logged
                 THEN Append(touchLog, [act |-> act, x |-> x, y |-> y, ran |-> FALSE])
                 ELSE touchLog
  /\ IF noop
     THEN /\ NoReq
          /\ UNCHANGED calls
     ELSE IF op = "deleteSession"
     THEN /\ IssueReq("delete", sessionId, c, <<"delete">>)
          /\ calls' = calls @@
               (c :> NewCall(op, act, x, y, dx, dy, "awaitDelete", sessionId, nextReq, li))
     ELSE IF needsCreate
     THEN /\ IssueReq("create", 0, c, <<"create">>)
          /\ calls' = calls @@
               (c :> NewCall(op, act, x, y, dx, dy, "awaitCreate", 0, nextReq, li))
     ELSE /\ NoReq
          /\ calls' = calls @@
               (c :> NewCall(op, act, x, y, dx, dy, "resume", sessionId, 0, li))
  /\ UNCHANGED <<sessionId, touchActive, touchStartX, touchStartY, nextSid, nDisc,
                 lastSettled, gestures, errSids, retiredSids, discInflight>>
  /\ UNCHANGED <<frameVars, inputVars, moreVars>>

\* any public method, called at any time (also while other calls are pending)
Start ==
  /\ nextCall <= MaxCalls
  /\ \/ \E act \in TouchActions, pt \in OverlapPoints :
           StartBody("touch", act, pt[1], pt[2], 0, 0, FALSE)
     \/ \E dl \in ScrollDeltas : StartBody("scroll", "none", 0, 0, dl[1], dl[2], FALSE)
     \/ \E op \in AllOps \ {"touch", "scroll"} :
           StartBody(op, "none", 0, 0, 0, 0, FALSE)

\* touch() called by a caller that awaits every call before the next
StartAwaited ==
  /\ nextCall <= MaxSeqCalls
  /\ DOMAIN calls = {}
  /\ \E act \in TouchActions, pt \in Points :
        StartBody("touch", act, pt[1], pt[2], 0, 0, TRUE)


\* ------------------------------------------------------------------------
\* WDAClient: the code of a control method after `await this.ensureSession()`
\* ------------------------------------------------------------------------
\* touch() with `this.touchActive = false` missing from the 'up' branch
TouchActiveAfterStuck(act, active) ==
  IF act = "down" THEN TRUE ELSE active

\* this.touchActive after the branches of touch(): 'down' sets it, an 'up'
\* that finds it set clears it, 'move' leaves it

TouchActiveAfter(act, active) ==
  IF act = "down" THEN TRUE
  ELSE IF act = "up" /\ active THEN FALSE
  ELSE active

\* the one request the method issues after ensureSession, <<>> for none
ActionBody(call) ==
  IF call.op = "touch"
  THEN IF call.act = "up" /\ touchActive
       THEN GestureBody(touchStartX, touchStartY, call.x, call.y)
       ELSE <<>>
  ELSE IF call.op = "scroll" THEN ScrollBody(call.dx, call.dy)
  ELSE IF call.op \in OneShotOps THEN <<call.op>>
  ELSE <<>>

Resume(c) ==
  /\ c \in DOMAIN calls
  /\ calls[c].pc = "resume"
  /\ LET call == calls[c]
         body == ActionBody(call)
     IN
     /\ touchLog' = IF call.li # 0
                    THEN [touchLog EXCEPT ![call.li].ran = TRUE]
                    ELSE touchLog
     /\ touchActive' = IF call.op = "touch"
                       THEN TouchActiveAfter(call.act, touchActive)
                       ELSE touchActive
     /\ touchStartX' = IF call.op = "touch" /\ call.act = "down" THEN call.x ELSE touchStartX
     /\ touchStartY' = IF call.op = "touch" /\ call.act = "down" THEN call.y ELSE touchStartY
     /\ IF Len(body) = 0
        THEN /\ NoReq
             /\ calls' = Remove(calls, c)
             /\ UNCHANGED gestures
        ELSE /\ IssueReq("action", call.sid, c, body)
             /\ calls' = [calls EXCEPT ![c].pc = "awaitAction", ![c].req = nextReq,
                                       ![c].sent = @ + 1]
             /\ gestures' = IF call.li # 0
                            THEN Append(gestures, [at |-> call.li, body |-> body])
                            ELSE gestures
  /\ UNCHANGED <<sessionId, nextCall, nextSid, nDisc, lastSettled,
                 errSids, retiredSids, discInflight>>
  /\ UNCHANGED <<frameVars, inputVars, moreVars>>

\* ------------------------------------------------------------------------
\* WDAClient.request: the fetch settles; finally block; the awaiting method
\* continues up to its next await.  out: "ok", "noId" (ok without session
\* id), "httpError" (!response.ok), "reject" (fetch rejects: network, abort)
\* ------------------------------------------------------------------------
\* a one-shot method that catches the failure and sends its request again
OnActionFailureRetry(call) == IF call.op \in OneShotOps THEN "retry" ELSE "reject"

\* what a control method does when its awaited action request throws: no
\* method of WDAClient catches, the rejection reaches the caller

OnActionFailure(call) == "reject"

Settle(r, out) ==
  LET q    == reqs[r]
      c    == q.owner
      call == calls[c]
      good == out = "ok"
      retry == q.kind = "action" /\ ~good /\ OnActionFailure(call) = "retry"
  IN
  /\ reqs' = Remove(reqs, r)          \* clearTimeout(timeoutId)
  /\ abortController' = 0             \* this.abortController = null
  /\ sessionId' = IF q.kind = "create" /\ good THEN nextSid
                  ELSE IF q.kind = "delete" THEN 0
                  ELSE sessionId
  /\ nextSid' = IF q.kind = "create" /\ good THEN nextSid + 1 ELSE nextSid
  /\ errSids' = IF q.kind = "action" /\ out = "httpError"
                THEN errSids \cup {q.sid} ELSE errSids
  /\ calls' = IF q.kind = "create" /\ good /\ call.op # "createSession"
              THEN [calls EXCEPT ![c].pc = "resume", ![c].sid = nextSid, ![c].req = 0]
              ELSE IF retry
              THEN [calls EXCEPT ![c].pc = "resume", ![c].req = 0]
              ELSE Remove(calls, c)
  /\ lastSettled' =
       [kind |-> q.kind, out |-> out,
        result |-> IF q.kind = "delete" THEN "fulfilled"     \* catch {} finally
                   ELSE IF retry THEN "pending"
                   ELSE IF ~good THEN "rejected"
                   ELSE IF q.kind = "create" /\ call.op # "createSession" THEN "pending"
                   ELSE "fulfilled"]
  /\ UNCHANGED <<touchActive, touchStartX, touchStartY, nextCall, nextReq, nDisc,
                 touchLog, gestures, deleteIssued, retiredSids, discInflight,
                 staleUse>>
  /\ UNCHANGED <<frameVars, inputVars, moreVars>>

RespondOk(r) ==
  /\ r \in DOMAIN reqs
  /\ ~reqs[r].aborted
  /\ Settle(r, "ok")

\* POST /session answered 200 without a session id: createSession throws
RespondNoId(r) ==
  /\ r \in DOMAIN reqs
  /\ ~reqs[r].aborted
  /\ reqs[r].kind = "create"
  /\ Settle(r, "noId")

RespondError(r) ==
  /\ r \in DOMAIN reqs
  /\ ~reqs[r].aborted
  /\ Settle(r, "httpError")

\* fetch rejects: connection failure, or the request's signal was aborted
FetchReject(r) ==
  /\ r \in DOMAIN reqs
  /\ Settle(r, "reject")

\* the setTimeout callback of request r runs REQUEST_TIMEOUT_MS after r was
\* started: `this.abortController?.abort()`.  Timers have equal delays, so
\* they run in the order the requests were started.
TimerFire(r) ==
  /\ r \in DOMAIN reqs
  /\ reqs[r].timer
  /\ \A q \in DOMAIN reqs : q < r => ~reqs[q].timer
  /\ reqs' = [q \in DOMAIN reqs |->
                [reqs[q] EXCEPT !.timer = IF q = r THEN FALSE ELSE @,
                                !.expired = IF q = r THEN TRUE ELSE @,
                                !.aborted = IF q = abortController THEN TRUE ELSE @]]
  /\ UNCHANGED <<sessionId, abortController, touchActive, touchStartX, touchStartY,
                 calls, nextCall, nextReq, nextSid, nDisc, lastSettled, touchLog, gestures,
                 deleteIssued, errSids, retiredSids, discInflight, staleUse>>
  /\ UNCHANGED <<frameVars, inputVars, moreVars>>

\* ------------------------------------------------------------------------
\* WDAClient.disconnect (synchronous): abort the controller stored in the
\* field, start deleteSession() without awaiting it, reset touch and id
\* ------------------------------------------------------------------------
Disconnect ==
  /\ nDisc < MaxDisconnects
  /\ LET c == -(nDisc + 1)    \* the deleteSession() promise nobody awaits
         aborted == [q \in DOMAIN reqs |->
                       [reqs[q] EXCEPT !.aborted = IF q = abortController THEN TRUE ELSE @]]
     IN
     /\ nDisc' = nDisc + 1
     /\ discInflight' = DOMAIN reqs
     /\ retiredSids' = IF sessionId # 0 THEN retiredSids \cup {sessionId} ELSE retiredSids
     /\ IF sessionId # 0
        THEN /\ reqs' = aborted @@ (nextReq :> NewReq("delete", sessionId, c, <<"delete">>))
             /\ abortController' = nextReq
             /\ nextReq' = nextReq + 1
             /\ deleteIssued' = deleteIssued \cup {sessionId}
             /\ calls' = calls @@
                  (c :> NewCall("deleteSession", "none", 0, 0, 0, 0,
                                "awaitDelete", sessionId, nextReq, 0))
        ELSE /\ reqs' = aborted
             /\ abortController' = 0
             /\ UNCHANGED <<nextReq, deleteIssued, calls>>
     /\ touchActive' = FALSE
     /\ sessionId' = 0
  /\ UNCHANGED <<touchStartX, touchStartY, nextCall, nextSid, lastSettled, touchLog,
                 gestures, errSids, staleUse>>
  /\ UNCHANGED <<frameVars, inputVars, moreVars>>

\* ------------------------------------------------------------------------
\* Specifications of the WDAClient
\* ------------------------------------------------------------------------
Init == InitWDA /\ FrameIdle /\ InputIdle /\ MoreIdle

\* every interleaving of public calls, responses and timeouts
Next ==
  \/ Start
  \/ \E c \in DOMAIN calls : Resume(c)
  \/ \E r \in DOMAIN reqs : RespondOk(r)
  \/ \E r \in DOMAIN reqs : RespondNoId(r)
  \/ \E r \in DOMAIN reqs : RespondError(r)
  \/ \E r \in DOMAIN reqs : FetchReject(r)
  \/ \E r \in DOMAIN reqs : TimerFire(r)

Spec == Init /\ [][Next]_vars

\* the same with disconnect() called at any moment
NextDisc ==
  \/ Start
  \/ \E c \in DOMAIN calls : Resume(c)
  \/ \E r \in DOMAIN reqs : RespondOk(r)
  \/ \E r \in DOMAIN reqs : RespondNoId(r)
  \/ \E r \in DOMAIN reqs : RespondError(r)
  \/ \E r \in DOMAIN reqs : FetchReject(r)
  \/ \E r \in DOMAIN reqs : TimerFire(r)
  \/ Disconnect

SpecDisc == Init /\ [][NextDisc]_vars

\* touch calls only, each awaited before the next is made
NextSeq ==
  \/ StartAwaited
  \/ \E c \in DOMAIN calls : Resume(c)
  \/ \E r \in DOMAIN reqs : RespondOk(r)
  \/ \E r \in DOMAIN reqs : RespondNoId(r)
  \/ \E r \in DOMAIN reqs : RespondError(r)
  \/ \E r \in DOMAIN reqs : FetchReject(r)
  \/ \E r \in DOMAIN reqs : TimerFire(r)

SpecSeq == Init /\ [][NextSeq]_vars


\* ========================================================================
\* Claims about the WDAClient
\* ========================================================================
\* POST /session requests in flight that a control call issued through
\* ensureSession()
ControlCreates ==
  {r \in DOMAIN reqs : reqs[r].kind = "create" /\ calls[reqs[r].owner].op \in SessionOps}

\* C1: the control calls never have more than one remote session outstanding:
\* counting the stored session and the session creations in flight, at most
\* one POST /session is open at any time, whatever the interleaving.
C1_AtMostOneSession ==
  Cardinality(ControlCreates) + (IF sessionId # 0 THEN 1 ELSE 0) <= 1

\* indices of the logged 'up' calls that ran and are preceded by a 'down'
\* that ran and that no earlier 'up' has consumed
ConsumingUps(log) ==
  {i \in 1..Len(log) :
     /\ log[i].act = "up" /\ log[i].ran
     /\ \E j \in 1..(i - 1) :
          /\ log[j].act = "down" /\ log[j].ran
          /\ \A k \in (j + 1)..(i - 1) : ~(log[k].act = "up" /\ log[k].ran)}

\* index of the 'down' that the 'up' at index i ends
DownOf(log, i) ==
  CHOOSE j \in 1..(i - 1) :
     /\ log[j].act = "down" /\ log[j].ran
     /\ \A k \in (j + 1)..(i - 1) : ~(log[k].act = "down" /\ log[k].ran)

\* C2: with every touch call awaited before the next, exactly one gesture
\* request is issued per 'down' ... 'up' pair, at the 'up'; 'down', 'move'
\* and an 'up' without an unconsumed 'down' issue none.  (A call that is
\* rejected while its session is created never reaches the touch code.)
C2_OneGesturePerPair ==
  /\ {gestures[n].at : n \in 1..Len(gestures)} = ConsumingUps(touchLog)
  /\ \A m, n \in 1..Len(gestures) : m < n => gestures[m].at < gestures[n].at

\* C2 witness: down, move, up, up has run: one gesture was issued and an
\* 'up' that ran issued none
C2_Witness ==
  /\ Len(gestures) = 1
  /\ \E i \in 1..Len(touchLog) : touchLog[i].act = "move" /\ touchLog[i].ran
  /\ \E i \in 1..Len(touchLog) :
        touchLog[i].act = "up" /\ touchLog[i].ran /\ i > gestures[1].at

\* p is the integer pixel nearest to the half-pixel value v (halves go up)
IsNearestPixel(p, v) == 2 * p - 1 <= v /\ v < 2 * p + 1

\* C3 as stated: the 'up' that ends a touch is issued as a tap at exactly
\* (x0,y0) when the distance is below 10 pixels, else as a swipe from exactly
\* (x0,y0) to (x1,y1).
C3_ExactCoordinates ==
  \A n \in 1..Len(gestures) :
    LET i == gestures[n].at
        d == touchLog[DownOf(touchLog, i)]
        u == touchLog[i]
        b == gestures[n].body
        near == (u.x - d.x) * (u.x - d.x) + (u.y - d.y) * (u.y - d.y) < 400
    IN IF near
       THEN b[1] = "tap" /\ 2 * b[2] = d.x /\ 2 * b[3] = d.y
       ELSE /\ b[1] = "swipe" /\ 2 * b[2] = d.x /\ 2 * b[3] = d.y
            /\ 2 * b[4] = u.x /\ 2 * b[5] = u.y

\* C3 amended: the 'up' that ends a touch begun at (x0,y0) is issued as a tap
\* at (x0,y0) rounded to whole pixels when the unrounded distance is below
\* 10 pixels, else as a swipe from the rounded (x0,y0) to the rounded
\* (x1,y1); 'move' calls change neither start point nor classification.
C3_RoundedCoordinates ==
  \A n \in 1..Len(gestures) :
    LET i == gestures[n].at
        d == touchLog[DownOf(touchLog, i)]
        u == touchLog[i]
        b == gestures[n].body
        near == (u.x - d.x) * (u.x - d.x) + (u.y - d.y) * (u.y - d.y) < 400
    IN IF near
       THEN b[1] = "tap" /\ IsNearestPixel(b[2], d.x) /\ IsNearestPixel(b[3], d.y)
       ELSE /\ b[1] = "swipe"
            /\ IsNearestPixel(b[2], d.x) /\ IsNearestPixel(b[3], d.y)
            /\ IsNearestPixel(b[4], u.x) /\ IsNearestPixel(b[5], u.y)

\* C3 witness: a swipe of exactly 10 pixels was issued for a touch that had a
\* 'move' between its 'down' and its 'up'
C3_Witness ==
  \E n \in 1..Len(gestures) :
    LET i == gestures[n].at
        j == DownOf(touchLog, i)
    IN /\ gestures[n].body[1] = "swipe"
       /\ touchLog[j].x = 0 /\ touchLog[i].x = 12 /\ touchLog[i].y = 16
       /\ \E k \in (j + 1)..(i - 1) : touchLog[k].act = "move" /\ touchLog[k].ran

\* C23 as stated: a session-creation request is issued only when no session
\* id is stored; with an id stored a control call gets that id and issues no
\* request for it; and every sequence of awaited control calls has created
\* exactly one session when its last call has settled.
C23_ExactlyOneSession ==
  /\ [][(nextReq' > nextReq /\ reqs'[nextReq].kind = "create") => sessionId = 0]_vars
  /\ [][(nextCall' > nextCall /\ sessionId # 0)
          => (nextReq' = nextReq /\ calls'[nextCall].sid = sessionId)]_vars
  /\ []((nextCall > 1 /\ DOMAIN calls = {}) => nextSid - 1 = 1)

\* C23 amended: a session-creation request is issued only when no session id
\* is stored; with an id stored a control call gets that id and issues no
\* request for it; awaited control calls never create more than one session,
\* and have created exactly one as soon as one of them got past
\* ensureSession (a call whose session creation fails creates none, and the
\* next call asks again).
C23_AtMostOneSession ==
  /\ [][(nextReq' > nextReq /\ reqs'[nextReq].kind = "create") => sessionId = 0]_vars
  /\ [][(nextCall' > nextCall /\ sessionId # 0)
          => (nextReq' = nextReq /\ calls'[nextCall].sid = sessionId)]_vars
  /\ [](nextSid - 1 <= 1)
  /\ []((sessionId # 0) <=> (nextSid - 1 = 1))
  /\ [](\A i \in 1..Len(touchLog) : touchLog[i].ran => nextSid - 1 = 1)

\* C23 witness: the first call's session creation failed, the second call
\* created the session and the third call ran with it: one session exists
C23_Witness ==
  /\ Len(touchLog) >= 3
  /\ ~touchLog[1].ran /\ touchLog[2].ran /\ touchLog[3].ran
  /\ DOMAIN calls = {}
  /\ nextSid - 1 = 1
  /\ sessionId = 1

\* ------------------------------------------------------------------------
\* touch('down') and touch('up') called back to back, the first not awaited
\* (as WDAClient.test.ts calls them), with or without a session created
\* before.  Each call runs synchronously up to its first await; the
\* continuations of settled promises (microtasks) run in the order the
\* promises settled and before the next response is processed.
\* ------------------------------------------------------------------------
\* the points of the pairs: 'up' at the point of 'down' or 10 px away
PairPoints == {<<0, 0>>, <<12, 16>>}

\* touch('down') has been called and the caller is about to call touch('up')
PairOpen == Len(touchLog) % 2 = 1

MicrotasksDrained == \A c \in DOMAIN calls : calls[c].pc # "resume"

\* beforeEach of the touch tests: createSession() is called and awaited
StartSetup ==
  /\ nextCall = 1
  /\ StartBody("createSession", "none", 0, 0, 0, 0, FALSE)

StartDown ==
  /\ ~PairOpen
  /\ MicrotasksDrained
  /\ \A c \in DOMAIN calls : calls[c].op # "createSession"
  /\ Len(touchLog) < 2 * MaxPairs
  /\ \E pt \in PairPoints : StartBody("touch", "down", pt[1], pt[2], 0, 0, TRUE)

StartUp ==
  /\ PairOpen
  /\ \E pt \in PairPoints : StartBody("touch", "up", pt[1], pt[2], 0, 0, TRUE)

\* the oldest continuation that is ready runs
ResumeFifo ==
  /\ ~PairOpen
  /\ \E c \in DOMAIN calls :
       /\ \A d \in DOMAIN calls : calls[d].pc = "resume" => c <= d
       /\ Resume(c)

NextPair ==
  \/ StartSetup
  \/ StartDown
  \/ StartUp
  \/ ResumeFifo
  \/ ~PairOpen /\ MicrotasksDrained /\ \E r \in DOMAIN reqs : RespondOk(r)
  \/ ~PairOpen /\ MicrotasksDrained /\ \E r \in DOMAIN reqs : RespondNoId(r)
  \/ ~PairOpen /\ MicrotasksDrained /\ \E r \in DOMAIN reqs : RespondError(r)
  \/ ~PairOpen /\ MicrotasksDrained /\ \E r \in DOMAIN reqs : FetchReject(r)
  \/ ~PairOpen /\ MicrotasksDrained /\ \E r \in DOMAIN reqs : TimerFire(r)

SpecPair == Init /\ [][NextPair]_vars

\* C24: when touch('down') and touch('up') are called back to back and both
\* calls have got past ensureSession, exactly one tap or swipe has been
\* issued for the pair and no touch is left active, whether or not a session
\* existed and in whatever order the session creations completed.
C24_UnawaitedPair ==
  \A k \in 1..MaxPairs :
    (Len(touchLog) >= 2 * k /\ touchLog[2 * k - 1].ran /\ touchLog[2 * k].ran
       /\ (Len(touchLog) > 2 * k => ~touchLog[2 * k + 1].ran /\ ~touchLog[Len(touchLog)].ran))
      => /\ Cardinality({n \in 1..Len(gestures) : gestures[n].at \in {2 * k - 1, 2 * k}}) = 1
         /\ ~touchActive

\* ------------------------------------------------------------------------
\* scroll() called by a caller that awaits every call before the next
\* ------------------------------------------------------------------------
\* deltas in thousandths: 0, the threshold 0.001, just above it, beyond the cap
ScrollValues == {-300, 0, 1, 2}

StartScroll ==
  /\ nextCall <= MaxScrollCalls
  /\ DOMAIN calls = {}
  /\ \E dx \in ScrollValues, dy \in ScrollValues :
        StartBody("scroll", "none", 0, 0, dx, dy, FALSE)

NextScroll ==
  \/ StartScroll
  \/ \E c \in DOMAIN calls : Resume(c)
  \/ \E r \in DOMAIN reqs : RespondOk(r)
  \/ \E r \in DOMAIN reqs : RespondNoId(r)
  \/ \E r \in DOMAIN reqs : RespondError(r)
  \/ \E r \in DOMAIN reqs : FetchReject(r)
  \/ \E r \in DOMAIN reqs : TimerFire(r)

SpecScroll == Init /\ [][NextScroll]_vars

\* a scroll call runs its code after ensureSession in this step
ScrollRuns(c) ==
  /\ c \in DOMAIN calls
  /\ calls[c].op = "scroll" /\ calls[c].pc = "resume"
  /\ (c \notin DOMAIN calls' \/ calls'[c].pc # "resume")

C32_DeleteKeepsNewSession ==
  /\ [][(sessionId # 0 /\ sessionId' = 0 /\ nDisc' = nDisc)
          => (lastSettled'.kind = "delete" /\ sessionId \in deleteIssued)]_vars
  /\ [](\A s \in 1..(nextSid - 1) : s = sessionId \/ s \in deleteIssued)

\* C4: after an action request with the stored session id got an error
\* response, the next control call creates a new session before its action:
\* no call issues its action with a session id that was known to be broken
\* when the call was made.
C4_RecreateAfterError ==
  \A c \in DOMAIN calls :
    calls[c].pc = "awaitAction" => calls[c].sid \notin calls[c].errAtStart

\* C5: a control call whose action request fails, is aborted or times out
\* rejects to its caller, having issued that request exactly once.
C5_RejectsOnFailure ==
  /\ \A c \in DOMAIN calls :
        /\ calls[c].sent <= 1
        /\ calls[c].pc = "awaitAction" => calls[c].sent = 1
        /\ Cardinality({r \in DOMAIN reqs : reqs[r].owner = c /\ reqs[r].kind = "action"})
             = (IF calls[c].pc = "awaitAction" THEN 1 ELSE 0)
  /\ (lastSettled.kind = "action" /\ lastSettled.out # "ok")
        => lastSettled.result = "rejected"

\* C5 witness: an action request has failed and its call was rejected
C5_Witness ==
  /\ lastSettled.kind = "action"
  /\ lastSettled.out = "reject"
  /\ lastSettled.result = "rejected"

\* C6: disconnect() aborts every request that is in flight when it is called.
C6_DisconnectAbortsAll ==
  \A r \in discInflight \cap DOMAIN reqs : reqs[r].aborted

\* C7: every request is aborted no later than REQUEST_TIMEOUT_MS after it was
\* started, unless it has completed by then.
C7_TimeoutAbortsRequest ==
  \A r \in DOMAIN reqs : reqs[r].expired => reqs[r].aborted

\* C8: after disconnect() no request other than the DELETE is issued with the
\* session id that was stored before the disconnect.
C8_NoUseOfRetiredSession == ~staleUse


\* ========================================================================
\* iOSConnection: framing of the helper's stdout
\* ========================================================================
\* type bytes the helper writes here: a video frame, a status, an unknown type
MsgTypes == {MT_VIDEO_FRAME, MT_STATUS, 9}
PayloadBytes == {0, 6}

Payloads == UNION {[1..k -> PayloadBytes] : k \in 0..MaxPayload}
Msgs == [type : MsgTypes, payload : Payloads]
MsgLists == UNION {[1..n -> Msgs] : n \in 0..MaxMsgs}

\* header.writeUInt32BE(n, 1): most significant byte first
UInt32BE(n) ==
  <<(n \div 16777216) % 256, (n \div 65536) % 256, (n \div 256) % 256, n % 256>>

\* writeMessage(type, payload) of mock-helper.js
WriteMessage(m) == <<m.type>> \o UInt32BE(Len(m.payload)) \o m.payload

RECURSIVE WriteAll(_)
WriteAll(ms) == IF Len(ms) = 0 THEN <<>> ELSE WriteMessage(Head(ms)) \o WriteAll(Tail(ms))

\* the four length bytes read least significant byte first
ReadUInt32LE(buf, off) ==
  buf[off + 1] + 256 * buf[off + 2] + 65536 * buf[off + 3] + 16777216 * buf[off + 4]

\* buf.readUInt32BE(off): off counts from 0, buf from 1
ReadUInt32BE(buf, off) ==
  16777216 * buf[off + 1] + 65536 * buf[off + 2] + 256 * buf[off + 3] + buf[off + 4]

\* the while loop of handleHelperData: out collects the processMessage calls
RECURSIVE ParseLoop(_, _)
ParseLoop(buf, out) ==
  IF Len(buf) < HEADER_SIZE
  THEN [buf |-> buf, out |-> out]
  ELSE LET type   == buf[1]
           length == ReadUInt32BE(buf, 1)
       IN IF Len(buf) < HEADER_SIZE + length
          THEN [buf |-> buf, out |-> out]
          ELSE ParseLoop(SubSeq(buf, HEADER_SIZE + length + 1, Len(buf)),
                         Append(out, [type |-> type,
                                      payload |-> SubSeq(buf, HEADER_SIZE + 1,
                                                         HEADER_SIZE + length)]))

\* processMessage with a default branch that reports the message
CallbacksDefaultError(type, payload) ==
  IF type = MT_VIDEO_CONFIG
  THEN IF Len(payload) < 8 THEN <<>>
       ELSE <<[cb |-> "onStatus", data |-> SubSeq(payload, 1, 8)],
              [cb |-> "onVideoFrame", data |-> SubSeq(payload, 9, Len(payload))]>>
  ELSE IF type = MT_VIDEO_FRAME
  THEN IF Len(payload) < 9 THEN <<>>
       ELSE <<[cb |-> "onVideoFrame", data |-> SubSeq(payload, 10, Len(payload))]>>
  ELSE IF type = MT_ERROR THEN <<[cb |-> "onError", data |-> payload]>>
  ELSE IF type = MT_STATUS THEN <<[cb |-> "onStatus", data |-> payload]>>
  ELSE <<[cb |-> "onError", data |-> payload]>>

\* the callbacks processMessage(type, payload) invokes
Callbacks(type, payload) ==
  IF type = MT_VIDEO_CONFIG
  THEN IF Len(payload) < 8 THEN <<>>
       ELSE <<[cb |-> "onStatus", data |-> SubSeq(payload, 1, 8)],
              [cb |-> "onVideoFrame", data |-> SubSeq(payload, 9, Len(payload))]>>
  ELSE IF type = MT_VIDEO_FRAME
  THEN IF Len(payload) < 9 THEN <<>>
       ELSE <<[cb |-> "onVideoFrame", data |-> SubSeq(payload, 10, Len(payload))]>>
  ELSE IF type = MT_ERROR THEN <<[cb |-> "onError", data |-> payload]>>
  ELSE IF type = MT_STATUS THEN <<[cb |-> "onStatus", data |-> payload]>>
  ELSE <<>>

RECURSIVE CallbacksOf(_)
CallbacksOf(ms) ==
  IF Len(ms) = 0 THEN <<>>
  ELSE Callbacks(Head(ms).type, Head(ms).payload) \o CallbacksOf(Tail(ms))

\* the helper has written its messages; nothing has been read yet
InitFrame ==
  /\ InitWDA
  /\ InputIdle
  /\ MoreIdle
  /\ \E ms \in MsgLists :
       /\ sentMsgs = ms
       /\ wire = WriteAll(ms)
  /\ messageBuffer = <<>>
  /\ dispatched = <<>>
  /\ cbLog = <<>>

\* stdout 'data' event with the next k bytes: handleHelperData(chunk)
HelperData(k) ==
  /\ k \in 1..Len(wire)
  /\ LET chunk == SubSeq(wire, 1, k)
         res   == ParseLoop(messageBuffer \o chunk, <<>>)
     IN /\ wire' = SubSeq(wire, k + 1, Len(wire))
        /\ messageBuffer' = res.buf
        /\ dispatched' = dispatched \o res.out
        /\ cbLog' = cbLog \o CallbacksOf(res.out)
  /\ UNCHANGED sentMsgs
  /\ UNCHANGED <<wdaVars, inputVars, moreVars>>

NextFrame == \E k \in 1..Len(wire) : HelperData(k)

SpecFrame == InitFrame /\ [][NextFrame]_vars

\* ------------------------------------------------------------------------
\* Claims about the framing
\* ------------------------------------------------------------------------
\* number of bytes the connection has received so far
Received == Len(WriteAll(sentMsgs)) - Len(wire)

\* the leading messages of sentMsgs that fit completely into n bytes
CompleteIn(n) ==
  LET fits == {j \in 0..Len(sentMsgs) : Len(WriteAll(SubSeq(sentMsgs, 1, j))) <= n}
  IN CHOOSE j \in fits : \A i \in fits : i <= j

\* C9: whatever the chunk boundaries, exactly the messages received in full
\* have been passed to processMessage, in stream order with their type and
\* payload; a message whose bytes have not all arrived is held in the buffer;
\* at the end the N messages written have been dispatched, as they are when
\* the whole stream arrives in one chunk.
C9_ChunkingIndependent ==
  /\ dispatched = SubSeq(sentMsgs, 1, CompleteIn(Received))
  /\ messageBuffer \o wire
       = WriteAll(SubSeq(sentMsgs, Len(dispatched) + 1, Len(sentMsgs)))
  /\ Len(wire) = 0 =>
       /\ dispatched = sentMsgs
       /\ dispatched = ParseLoop(WriteAll(sentMsgs), <<>>).out
       /\ Len(messageBuffer) = 0

\* C9 witness: the first message has been dispatched and the second one is
\* held back with its header complete and its payload still missing
C9_Witness ==
  /\ Len(sentMsgs) = 2
  /\ Len(dispatched) = 1
  /\ Len(messageBuffer) = HEADER_SIZE
  /\ Len(wire) = 1


\* the type bytes processMessage has a case for
HandledTypes == {MT_DEVICE_INFO, MT_VIDEO_CONFIG, MT_VIDEO_FRAME, MT_ERROR, MT_STATUS}

\* the messages of ms that carry a handled type, in order
HandledOnly(ms) == SelectSeq(ms, LAMBDA m : m.type \in HandledTypes)

\* C28: a complete message whose type byte is none of the handled types
\* invokes no callback; its payload is consumed, and the messages after it
\* are decoded as they were written.
C28_UnknownTypeSkipped ==
  /\ cbLog = CallbacksOf(HandledOnly(dispatched))
  /\ \A i \in 1..Len(dispatched) : dispatched[i] = sentMsgs[i]
  /\ messageBuffer \o wire = WriteAll(SubSeq(sentMsgs, Len(dispatched) + 1, Len(sentMsgs)))
  /\ Len(wire) = 0 => Len(dispatched) = Len(sentMsgs)

\* C28 witness: a message of type 9 with a payload byte was followed by a
\* status message; only the status message reached a callback
C28_Witness ==
  /\ Len(dispatched) = 2
  /\ dispatched[1].type = 9 /\ Len(dispatched[1].payload) = 1
  /\ dispatched[2].type = MT_STATUS
  /\ cbLog = <<[cb |-> "onStatus", data |-> dispatched[2].payload]>>
  /\ Len(messageBuffer) = 0 /\ Len(wire) = 0


\* ========================================================================
\* InputHandler: two-finger touch translation
\* ========================================================================
TouchIds == {0, 1, 2}

\* client positions of a contact: left of the canvas, beyond its right edge
TouchPts == {<<-1, 1>>, <<3, 2>>}

Max(a, b) == IF a > b THEN a ELSE b

\* getNormalizedCoordsFromTouch with rect = (0, 0, CanvasSize, CanvasSize):
\* max(0, min(1, x / rect.width)), kept in units of 1 / CanvasSize
NormalizedCoords(t) ==
  <<Max(0, Min(CanvasSize, t.x)), Max(0, Min(CanvasSize, t.y))>>

\* calculateDistance, squared
DistanceSq(p, q) ==
  (q[1] - p[1]) * (q[1] - p[1]) + (q[2] - p[2]) * (q[2] - p[2])

\* an array push where the Map.set should be
MapSetAppend(map, id, pt) == Append(map, [id |-> id, pt |-> pt])

\* Map.prototype.set: an existing key keeps its place, a new key goes last
MapSet(map, id, pt) ==
  IF \E i \in 1..Len(map) : map[i].id = id
  THEN [i \in 1..Len(map) |-> IF map[i].id = id THEN [id |-> id, pt |-> pt] ELSE map[i]]
  ELSE Append(map, [id |-> id, pt |-> pt])

\* Map.prototype.delete for every id of ids
MapDeleteAll(map, ids) == SelectSeq(map, LAMBDA e : e.id \notin ids)

MultiTouchCall(action, p1, p2) == [action |-> action, p1 |-> p1, p2 |-> p2]

\* onMultiTouch(touchArray[0], touchArray[1], 'up') if touchArray.length === 2
UpCalls(map) ==
  IF Len(map) = 2 THEN <<MultiTouchCall("up", map[1].pt, map[2].pt)>> ELSE <<>>

\* ev: [type, touches: sequence of [id, x, y], changed: set of ids]
OnTouchStart(ev) ==
  /\ evLog' = Append(evLog, ev)
  /\ IF Len(ev.touches) = 2 /\ hasMultiTouch
     THEN LET t1 == ev.touches[1]
              t2 == ev.touches[2]
              c1 == NormalizedCoords(t1)
              c2 == NormalizedCoords(t2)
          IN /\ isPinching' = TRUE
             /\ activeTouches' = MapSet(MapSet(activeTouches, t1.id, c1), t2.id, c2)
             /\ initialPinchDistance' = DistanceSq(c1, c2)
             /\ mtLog' = Append(mtLog, MultiTouchCall("down", c1, c2))
     ELSE IF Len(ev.touches) = 1
     THEN /\ isPinching' = FALSE
          /\ activeTouches' = <<>>
          /\ UNCHANGED <<initialPinchDistance, mtLog>>
     ELSE IF Len(ev.touches) > 2
     THEN /\ mtLog' = IF isPinching /\ hasMultiTouch
                      THEN mtLog \o UpCalls(activeTouches) ELSE mtLog
          /\ isPinching' = FALSE
          /\ activeTouches' = <<>>
          /\ UNCHANGED initialPinchDistance
     ELSE UNCHANGED <<isPinching, activeTouches, initialPinchDistance, mtLog>>
  /\ UNCHANGED hasMultiTouch
  /\ UNCHANGED notTouchVars

OnTouchMove(ev) ==
  /\ evLog' = Append(evLog, ev)
  /\ IF isPinching /\ Len(ev.touches) = 2 /\ hasMultiTouch
     THEN LET t1 == ev.touches[1]
              t2 == ev.touches[2]
              c1 == NormalizedCoords(t1)
              c2 == NormalizedCoords(t2)
          IN /\ activeTouches' = MapSet(MapSet(activeTouches, t1.id, c1), t2.id, c2)
             /\ mtLog' = Append(mtLog, MultiTouchCall("move", c1, c2))
     ELSE UNCHANGED <<activeTouches, mtLog>>
  /\ UNCHANGED <<isPinching, initialPinchDistance, hasMultiTouch>>
  /\ UNCHANGED notTouchVars

\* handler of touchend and touchcancel
OnTouchEnd(ev) ==
  /\ evLog' = Append(evLog, ev)
  /\ IF isPinching /\ hasMultiTouch
     THEN /\ mtLog' = mtLog \o UpCalls(activeTouches)
          /\ isPinching' = FALSE
          /\ activeTouches' = MapDeleteAll(<<>>, ev.changed)
          /\ initialPinchDistance' = 0
     ELSE /\ activeTouches' = MapDeleteAll(activeTouches, ev.changed)
          /\ UNCHANGED <<mtLog, isPinching, initialPinchDistance>>
  /\ UNCHANGED hasMultiTouch
  /\ UNCHANGED notTouchVars

Contact(id, pt) == [id |-> id, x |-> pt[1], y |-> pt[2]]

LastEvent == evLog[Len(evLog)]

\* a two-finger gesture is under way: the last event showed its two contacts
GestureOpen ==
  /\ Len(evLog) > 0
  /\ LastEvent.type \in {"touchstart", "touchmove"}

\* two contacts come down on the canvas
PinchStart ==
  /\ Len(evLog) < MaxTouchEvents
  /\ ~GestureOpen
  /\ \E a, b \in TouchIds, pa, pb \in TouchPts :
       /\ a # b
       /\ OnTouchStart([type |-> "touchstart",
                        touches |-> <<Contact(a, pa), Contact(b, pb)>>,
                        changed |-> {a, b}])
  /\ UNCHANGED screen

\* the same two contacts move; the touch list keeps its order
PinchMove ==
  /\ Len(evLog) < MaxTouchEvents
  /\ GestureOpen
  /\ \E pa, pb \in TouchPts :
       LET a == LastEvent.touches[1].id
           b == LastEvent.touches[2].id
       IN OnTouchMove([type |-> "touchmove",
                       touches |-> <<Contact(a, pa), Contact(b, pb)>>,
                       changed |-> {a, b}])
  /\ UNCHANGED screen

\* one or both contacts are lifted
PinchEnd ==
  /\ Len(evLog) < MaxTouchEvents
  /\ GestureOpen
  /\ \E rest \in {<<>>, <<LastEvent.touches[1]>>, <<LastEvent.touches[2]>>} :
       OnTouchEnd([type |-> "touchend",
                   touches |-> rest,
                   changed |-> {LastEvent.touches[i].id : i \in 1..2}
                                 \ {rest[i].id : i \in 1..Len(rest)}])
  /\ UNCHANGED screen

InitPinch == InitWDA /\ FrameIdle /\ InputIdle /\ MoreIdle

NextPinch ==
  \/ PinchStart
  \/ PinchMove
  \/ PinchEnd

SpecPinch == InitPinch /\ [][NextPinch]_vars

\* ------------------------------------------------------------------------
\* Claims about the two-finger translation
\* ------------------------------------------------------------------------
\* the onMultiTouch call the i-th event of a two-finger sequence stands for:
\* 'down' / 'move' with the coordinates the event shows, 'up' with the
\* coordinates last shown, the first contact before the second
ExpectedCall(i) ==
  LET ev == evLog[i]
      shown == IF ev.type = "touchend" THEN evLog[i - 1].touches ELSE ev.touches
      action == IF ev.type = "touchstart" THEN "down"
                ELSE IF ev.type = "touchmove" THEN "move" ELSE "up"
  IN MultiTouchCall(action, NormalizedCoords(shown[1]), NormalizedCoords(shown[2]))

\* C10: a touchstart with two contacts, N touchmoves with these two contacts
\* and a touchend produce exactly one 'down', N 'move' and one 'up' call of
\* onMultiTouch, one per event and in event order, each with the first
\* contact's coordinates before the second's.
C10_PinchLifecycle ==
  mtLog = [i \in 1..Len(evLog) |-> ExpectedCall(i)]

\* C10 witness: a gesture with two moves has ended; its first contact has the
\* larger identifier and the contacts ended away from where they started
C10_Witness ==
  /\ Len(evLog) = 4
  /\ evLog[4].type = "touchend"
  /\ evLog[2].type = "touchmove" /\ evLog[3].type = "touchmove"
  /\ evLog[1].touches[1].id > evLog[1].touches[2].id
  /\ mtLog[4].action = "up"
  /\ mtLog[4].p1 # mtLog[1].p1


\* ========================================================================
\* InputHandler on a touch surface: contacts on and off the canvas
\* ========================================================================
\* A touch event goes to the element its contact started on; its `touches`
\* list shows every contact on the surface. The canvas therefore sees the
\* events of its own contacts only, each showing all contacts.

\* where a contact outside the canvas rests
OffCanvasPt == <<3, 2>>

\* event.touches: every contact on the surface, oldest first
TouchesOf(scr) == [i \in 1..Len(scr) |-> [id |-> scr[i].id, x |-> scr[i].x, y |-> scr[i].y]]

IdsOn(scr) == {scr[i].id : i \in 1..Len(scr)}

CanvasIds(scr) == {scr[i].id : i \in {j \in 1..Len(scr) : scr[j].on}}

SurfaceContact(id, pt, on) == [id |-> id, x |-> pt[1], y |-> pt[2], on |-> on]

\* one contact lands on the canvas: touchstart
CanvasContactDown ==
  /\ Len(evLog) < MaxTouchEvents
  /\ \E id \in TouchIds \ IdsOn(screen), pt \in TouchPts :
       /\ screen' = Append(screen, SurfaceContact(id, pt, TRUE))
       /\ OnTouchStart([type |-> "touchstart",
                        touches |-> TouchesOf(screen'),
                        changed |-> {id}])

\* two contacts land on the canvas at once, the first to the left of the
\* second: one touchstart
CanvasPairDown ==
  /\ Len(evLog) < MaxTouchEvents
  /\ \E a, b \in TouchIds \ IdsOn(screen), pa, pb \in TouchPts :
       /\ a < b
       /\ pa[1] < pb[1]
       /\ screen' = screen \o <<SurfaceContact(a, pa, TRUE), SurfaceContact(b, pb, TRUE)>>
       /\ OnTouchStart([type |-> "touchstart",
                        touches |-> TouchesOf(screen'),
                        changed |-> {a, b}])

\* a contact lands beside the canvas, the only one there, and takes the
\* lowest free identifier: no event reaches the canvas
OtherContactDown ==
  /\ CanvasIds(screen) = IdsOn(screen)
  /\ \E id \in TouchIds \ IdsOn(screen) :
       /\ \A other \in TouchIds \ IdsOn(screen) : id <= other
       /\ screen' = Append(screen, SurfaceContact(id, OffCanvasPt, FALSE))
  /\ UNCHANGED <<inputVars, notTouchVars>>

\* a contact of the canvas moves: touchmove
CanvasContactMove ==
  /\ Len(evLog) < MaxTouchEvents
  /\ \E i \in 1..Len(screen), pt \in TouchPts :
       /\ screen[i].on
       /\ pt # <<screen[i].x, screen[i].y>>
       /\ screen' = [screen EXCEPT ![i] = SurfaceContact(screen[i].id, pt, TRUE)]
       /\ OnTouchMove([type |-> "touchmove",
                       touches |-> TouchesOf(screen'),
                       changed |-> {screen[i].id}])

\* one contact of the canvas is lifted, or all of them at once: touchend
\* (touchcancel runs the same handler)
CanvasContactUp ==
  /\ Len(evLog) < MaxTouchEvents
  /\ \E lifted \in {{id} : id \in CanvasIds(screen)} \cup {CanvasIds(screen)} :
       /\ lifted # {}
       /\ screen' = SelectSeq(screen, LAMBDA c : c.id \notin lifted)
       /\ OnTouchEnd([type |-> "touchend",
                      touches |-> TouchesOf(screen'),
                      changed |-> lifted])

\* a contact beside the canvas is lifted: no event reaches the canvas
OtherContactUp ==
  /\ \E i \in 1..Len(screen) :
       /\ ~screen[i].on
       /\ screen' = SelectSeq(screen, LAMBDA c : c.id # screen[i].id)
  /\ UNCHANGED <<inputVars, notTouchVars>>

InitSurface == InitWDA /\ FrameIdle /\ InputIdle /\ MoreIdle

NextSurface ==
  \/ CanvasContactDown
  \/ CanvasPairDown
  \/ OtherContactDown
  \/ CanvasContactMove
  \/ CanvasContactUp
  \/ OtherContactUp

SpecSurface == InitSurface /\ [][NextSurface]_vars

\* ------------------------------------------------------------------------
\* Claims about ending a pinch
\* ------------------------------------------------------------------------
\* the step dispatches a touch event to the canvas
TouchEventStep == Len(evLog') = Len(evLog) + 1

NewEvent == evLog'[Len(evLog')]

\* the step makes exactly one onMultiTouch call, an 'up'
EmitsOneUp ==
  /\ Len(mtLog') = Len(mtLog) + 1
  /\ SubSeq(mtLog', 1, Len(mtLog)) = mtLog
  /\ mtLog'[Len(mtLog')].action = "up"

\* C11: a touchstart that shows more than two contacts while a pinch is active
\* emits 'up', and nothing else, and clears the pinch state; from then on
\* nothing is emitted ('move' or a second 'up') until a touchstart with exactly
\* two contacts, which emits a fresh 'down' with the coordinates it shows.
C11_ThirdContactEndsPinch ==
  [][ /\ ( /\ TouchEventStep
           /\ isPinching
           /\ NewEvent.type = "touchstart" /\ Len(NewEvent.touches) > 2 )
         => /\ EmitsOneUp
            /\ ~isPinching'
            /\ activeTouches' = <<>>
      /\ ~isPinching
         => \/ mtLog' = mtLog
            \/ /\ TouchEventStep
               /\ NewEvent.type = "touchstart" /\ Len(NewEvent.touches) = 2
               /\ mtLog' = Append(mtLog,
                                  MultiTouchCall("down",
                                                 NormalizedCoords(NewEvent.touches[1]),
                                                 NormalizedCoords(NewEvent.touches[2])))
               /\ isPinching'
    ]_vars

\* C12: a touch event that shows a contact count other than two while a pinch
\* is active emits exactly one 'up' and clears the pinch state, and the pinch
\* state is never cleared without an 'up' in the same step.
C12_PinchEndsWithUp ==
  [][ /\ ( /\ TouchEventStep
           /\ isPinching
           /\ Len(NewEvent.touches) # 2 )
         => /\ EmitsOneUp
            /\ ~isPinching'
      /\ (isPinching /\ ~isPinching')
         => EmitsOneUp
    ]_vars


\* ========================================================================
\* KeyboardHandler: text buffering (its source file is not part of the
\* sources at hand; modelled from the specification and the unit tests)
\* ========================================================================
PrintableKeys == {"a", "b"}
SpecialKeys == {"Enter", "Tab"}
ClipboardOps == {"paste", "copy"}

kbOtherVars == <<wdaVars, frameVars, inputVars, screen, wheelVars, codecVars, extraVars>>

KbCall(cb, arg, at) == [cb |-> cb, arg |-> arg, at |-> at]

\* flushing the buffer: one text callback with the whole buffer, none if empty
FlushCalls(buf, at) ==
  IF Len(buf) = 0 THEN <<>> ELSE <<KbCall("text", buf, at)>>

\* the special action first, the buffered text after it
FlushThenLate(buf, call, at) == <<call>> \o FlushCalls(buf, at)

\* flush-before-special-action: the buffered text, then the action's callback
FlushThen(buf, call, at) == FlushCalls(buf, at) \o <<call>>

\* key-up callbacks for every key still pressed, in some order
RECURSIVE ReleaseCalls(_, _)
ReleaseCalls(keys, at) ==
  IF keys = {} THEN <<>>
  ELSE LET k == CHOOSE x \in keys : TRUE
       IN <<KbCall("keyup", k, at)>> \o ReleaseCalls(keys \ {k}, at)

\* click on the canvas / setFocused(true)
KbFocus ==
  /\ kbSteps < MaxKeyEvents
  /\ ~focused
  /\ focused' = TRUE
  /\ kbSteps' = kbSteps + 1
  /\ UNCHANGED <<textBuffer, pressedKeys, kbLog, typed>>
  /\ UNCHANGED kbOtherVars

\* setFocused(false): flush the buffer, release the pressed keys
KbBlur ==
  /\ kbSteps < MaxKeyEvents
  /\ focused
  /\ focused' = FALSE
  /\ kbSteps' = kbSteps + 1
  /\ kbLog' = kbLog \o FlushCalls(textBuffer, kbSteps') \o ReleaseCalls(pressedKeys, kbSteps')
  /\ textBuffer' = <<>>
  /\ pressedKeys' = {}
  /\ UNCHANGED typed
  /\ UNCHANGED kbOtherVars

\* keydown of a printable character without Ctrl: buffered; flushed at once
\* when the buffer reaches the maximum length
KeyDownPrintable ==
  /\ kbSteps < MaxKeyEvents
  /\ focused
  /\ kbSteps' = kbSteps + 1
  /\ \E ch \in PrintableKeys :
       LET buf == Append(textBuffer, ch)
       IN /\ typed' = Append(typed, [ch |-> ch, at |-> kbSteps'])
          /\ IF Len(buf) >= MaxTextLen
             THEN /\ kbLog' = kbLog \o FlushCalls(buf, kbSteps')
                  /\ textBuffer' = <<>>
             ELSE /\ textBuffer' = buf
                  /\ UNCHANGED kbLog
  /\ UNCHANGED <<focused, pressedKeys>>
  /\ UNCHANGED kbOtherVars

\* the idle timer after the last printable key expires
KbIdleTimeout ==
  /\ kbSteps < MaxKeyEvents
  /\ Len(textBuffer) > 0
  /\ kbSteps' = kbSteps + 1
  /\ kbLog' = kbLog \o FlushCalls(textBuffer, kbSteps')
  /\ textBuffer' = <<>>
  /\ UNCHANGED <<focused, pressedKeys, typed>>
  /\ UNCHANGED kbOtherVars

\* keydown of a non-printable key: flush, then the keycode callback
KeyDownSpecial ==
  /\ kbSteps < MaxKeyEvents
  /\ focused
  /\ kbSteps' = kbSteps + 1
  /\ \E k \in SpecialKeys :
       /\ kbLog' = kbLog \o FlushThen(textBuffer, KbCall("keydown", k, kbSteps'), kbSteps')
       /\ pressedKeys' = pressedKeys \cup {k}
  /\ textBuffer' = <<>>
  /\ UNCHANGED <<focused, typed>>
  /\ UNCHANGED kbOtherVars

\* keyup of a non-printable key: delivered only if the key is pressed
KeyUpSpecial ==
  /\ kbSteps < MaxKeyEvents
  /\ focused
  /\ kbSteps' = kbSteps + 1
  /\ \E k \in SpecialKeys :
       IF k \in pressedKeys
       THEN /\ kbLog' = Append(kbLog, KbCall("keyup", k, kbSteps'))
            /\ pressedKeys' = pressedKeys \ {k}
       ELSE UNCHANGED <<kbLog, pressedKeys>>
  /\ UNCHANGED <<focused, textBuffer, typed>>
  /\ UNCHANGED kbOtherVars

\* Ctrl+V / Ctrl+C: flush, then the paste or copy callback
KeyDownClipboard ==
  /\ kbSteps < MaxKeyEvents
  /\ focused
  /\ kbSteps' = kbSteps + 1
  /\ \E op \in ClipboardOps :
       kbLog' = kbLog \o FlushThen(textBuffer, KbCall(op, "", kbSteps'), kbSteps')
  /\ textBuffer' = <<>>
  /\ UNCHANGED <<focused, pressedKeys, typed>>
  /\ UNCHANGED kbOtherVars

\* a keyboard event while the canvas is not focused: no callback
KeyIgnored ==
  /\ kbSteps < MaxKeyEvents
  /\ ~focused
  /\ kbSteps' = kbSteps + 1
  /\ UNCHANGED <<focused, textBuffer, pressedKeys, kbLog, typed>>
  /\ UNCHANGED kbOtherVars

InitKb == InitWDA /\ FrameIdle /\ InputIdle /\ MoreIdle

NextKb ==
  \/ KbFocus
  \/ KbBlur
  \/ KeyDownPrintable
  \/ KbIdleTimeout
  \/ KeyDownSpecial
  \/ KeyUpSpecial
  \/ KeyDownClipboard
  \/ KeyIgnored

SpecKb == InitKb /\ [][NextKb]_vars

\* ------------------------------------------------------------------------
\* Claims about the text buffer
\* ------------------------------------------------------------------------
\* the characters the text callbacks among the first n callbacks delivered
RECURSIVE DeliveredText(_)
DeliveredText(n) ==
  IF n = 0 THEN <<>>
  ELSE DeliveredText(n - 1) \o (IF kbLog[n].cb = "text" THEN kbLog[n].arg ELSE <<>>)

\* the characters typed before step s / up to step s
RECURSIVE TypedUpTo(_, _)
TypedUpTo(n, s) ==
  IF n = 0 THEN <<>>
  ELSE TypedUpTo(n - 1, s) \o (IF typed[n].at <= s THEN <<typed[n].ch>> ELSE <<>>)

FlushingCallbacks == {"keydown", "paste", "copy"}

\* C13: when a non-printable key, a clipboard shortcut or a focus loss occurs,
\* every character typed before it has been delivered, complete and in typed
\* order, by text callbacks that precede the callback of that event, the
\* buffered characters in exactly one text callback (no step makes two); no
\* character is ever delivered after a later special key, lost or duplicated.
C13_FlushBeforeSpecial ==
  /\ \A k \in 1..Len(kbLog) :
       kbLog[k].cb \in FlushingCallbacks
         => DeliveredText(k - 1) = TypedUpTo(Len(typed), kbLog[k].at)
  /\ \A i, j \in 1..Len(kbLog) :
       (i < j /\ kbLog[i].cb = "text" /\ kbLog[j].cb = "text") => kbLog[i].at < kbLog[j].at
  /\ \A k \in 1..Len(kbLog) : kbLog[k].cb = "text" => Len(kbLog[k].arg) > 0
  /\ ~focused => Len(textBuffer) = 0
  /\ DeliveredText(Len(kbLog)) \o textBuffer = TypedUpTo(Len(typed), kbSteps)

\* C13 witness: one character was typed and then a special key pressed; the
\* text callback with that character precedes the key-down, in the same step,
\* and a character typed afterwards was flushed by a clipboard shortcut
C13_Witness ==
  /\ Len(kbLog) = 4
  /\ kbLog[1].cb = "text" /\ kbLog[1].arg = <<"a">>
  /\ kbLog[2].cb = "keydown" /\ kbLog[2].at = kbLog[1].at
  /\ kbLog[3].cb = "text" /\ kbLog[3].arg = <<"b">>
  /\ kbLog[4].cb = "paste" /\ kbLog[4].at = kbLog[3].at


\* ========================================================================
\* InputHandler: wheel events and the scroll buffer
\* ========================================================================
\* Wheel deltas are in units of 1/100 pixel (line, page); the scroll buffer
\* and the onScroll amounts are in units of 1/20000, so that dividing by
\* SCROLL_STEP = 200 is exact. The handler is constructed with onScroll.

\* <<deltaX, deltaY>> of a wheel event
WheelDeltas == {<<0, 1>>, <<0, 2>>, <<-3, 1>>}

\* deltaMode: DOM_DELTA_PIXEL, DOM_DELTA_LINE, DOM_DELTA_PAGE
DeltaModes == {0, 1, 2}

\* client position of the mouse
WheelPts == {<<1, 3>>}

wheelOtherVars == <<wdaVars, frameVars, inputVars, screen, kbVars, codecVars, extraVars>>

\* deltaX *= 16 / 100 by deltaMode, then deltaX = -deltaX / SCROLL_STEP
ScaledDelta(delta, mode) ==
  LET pixels == IF mode = 1 THEN delta * LINE_HEIGHT
                ELSE IF mode = 2 THEN delta * PAGE_HEIGHT
                ELSE delta
  IN 0 - pixels

\* Math.abs(v) >= THRESHOLD
AboveThresholdInclusive(v) == Abs(v) >= SCROLL_THRESHOLD

\* Math.abs(v) > THRESHOLD
AboveThreshold(v) == Abs(v) > SCROLL_THRESHOLD

ScrollCall(frame, pos, dx, dy) == [frame |-> frame, pos |-> pos, dx |-> dx, dy |-> dy]

\* one onScroll call per axis that moved
ProcessCallsPerAxis(frame, pos, bx, by) ==
  (IF AboveThreshold(bx) THEN <<ScrollCall(frame, pos, bx, 0)>> ELSE <<>>)
    \o (IF AboveThreshold(by) THEN <<ScrollCall(frame, pos, 0, by)>> ELSE <<>>)

\* the onScroll calls of processScrollBuffer
ProcessCalls(frame, pos, bx, by) ==
  IF AboveThreshold(bx) \/ AboveThreshold(by)
  THEN <<ScrollCall(frame, pos, bx, by)>>
  ELSE <<>>

\* 'wheel' listener: onWheelEvent
OnWheelEvent ==
  /\ Len(wheelLog) < MaxWheelEvents
  /\ \E d \in WheelDeltas, mode \in DeltaModes, pt \in WheelPts :
       /\ lastScroll' = NormalizedCoords([x |-> pt[1], y |-> pt[2]])
       /\ scrollBufferX' = scrollBufferX + ScaledDelta(d[1], mode)
       /\ scrollBufferY' = scrollBufferY + ScaledDelta(d[2], mode)
       /\ wheelLog' = Append(wheelLog, [frame |-> frameNo, calls |-> Len(scrollLog),
                                        dx |-> d[1], dy |-> d[2], mode |-> mode])
  /\ IF scrollRafId = 0
     THEN /\ scrollRafId' = Len(wheelLog')
          /\ rafQueue' = Append(rafQueue, scrollRafId')
     ELSE UNCHANGED <<scrollRafId, rafQueue>>
  /\ UNCHANGED <<scrollLog, frameNo>>
  /\ UNCHANGED wheelOtherVars

\* processScrollBuffer run once for every request of queue, in order:
\* [rafId, bx, by, calls] after the runs
RECURSIVE RunFrame(_, _, _)
RunFrame(queue, frame, st) ==
  IF Len(queue) = 0 THEN st
  ELSE LET made == ProcessCalls(frame, lastScroll, st.bx, st.by)
           reset == Len(made) > 0
       IN RunFrame(Tail(queue), frame,
                   [rafId |-> 0,
                    bx |-> IF reset THEN 0 ELSE st.bx,
                    by |-> IF reset THEN 0 ELSE st.by,
                    calls |-> st.calls \o made])

\* the browser runs an animation frame: every requested callback runs
AnimationFrame ==
  /\ Len(rafQueue) > 0
  /\ frameNo' = frameNo + 1
  /\ LET st == RunFrame(rafQueue, frameNo',
                        [rafId |-> scrollRafId, bx |-> scrollBufferX,
                         by |-> scrollBufferY, calls |-> <<>>])
     IN /\ scrollRafId' = st.rafId
        /\ scrollBufferX' = st.bx
        /\ scrollBufferY' = st.by
        /\ scrollLog' = scrollLog \o st.calls
  /\ rafQueue' = <<>>
  /\ UNCHANGED <<lastScroll, wheelLog>>
  /\ UNCHANGED wheelOtherVars

InitWheel == InitWDA /\ FrameIdle /\ InputIdle /\ MoreIdle

NextWheel ==
  \/ OnWheelEvent
  \/ AnimationFrame

SpecWheel == InitWheel /\ [][NextWheel]_vars

\* ------------------------------------------------------------------------
\* Claims about scrolling
\* ------------------------------------------------------------------------
\* C14: a wheel event makes no onScroll call in its own handler, and the wheel
\* events received before an animation frame produce at most one onScroll
\* call, made in that frame: no two calls are made in the same frame, and
\* every call is made in a frame later than the receipt of its wheel events.
C14_ScrollBatchedPerFrame ==
  /\ \A i \in 1..Len(wheelLog) :
       \A k \in 1..Len(scrollLog) :
         (wheelLog[i].calls = k - 1) => scrollLog[k].frame > wheelLog[i].frame
  /\ \A k \in 1..Len(scrollLog) :
       /\ scrollLog[k].frame \in 1..frameNo
       /\ \A j \in 1..Len(scrollLog) : j < k => scrollLog[j].frame < scrollLog[k].frame
       /\ \E i \in 1..Len(wheelLog) : wheelLog[i].calls = k - 1
  /\ Len(scrollLog) <= frameNo

\* C14 witness: three wheel events arrived before the first frame, and that
\* frame made one onScroll call
C14_Witness ==
  /\ Len(wheelLog) = 3
  /\ \A i \in 1..3 : wheelLog[i].frame = 0
  /\ frameNo = 1
  /\ Len(scrollLog) = 1

\* -delta / 200 of the wheel events received after k onScroll calls,
\* line-mode deltas first multiplied by 16 and page-mode deltas by 100
RECURSIVE SumSince(_, _, _)
SumSince(n, k, axis) ==
  IF n = 0 THEN 0
  ELSE SumSince(n - 1, k, axis)
       + (IF wheelLog[n].calls = k
          THEN LET d == IF axis = 1 THEN wheelLog[n].dx ELSE wheelLog[n].dy
                   f == IF wheelLog[n].mode = 1 THEN 16
                        ELSE IF wheelLog[n].mode = 2 THEN 100 ELSE 1
               IN 0 - d * f
          ELSE 0)

\* C15: every onScroll call carries, per axis, the sum of -delta/200 (line
\* deltas times 16, page deltas times 100) over the wheel events since the
\* previous call, and is made only when one of these sums exceeds 0.0001 in
\* magnitude; a frame in which neither does makes no call and keeps the
\* accumulated amounts, which stay in the buffer for a later frame.
C15_ScrollAmounts ==
  /\ \A k \in 1..Len(scrollLog) :
       /\ scrollLog[k].dx = SumSince(Len(wheelLog), k - 1, 1)
       /\ scrollLog[k].dy = SumSince(Len(wheelLog), k - 1, 2)
       /\ Abs(scrollLog[k].dx) > 2 \/ Abs(scrollLog[k].dy) > 2
  /\ scrollBufferX = SumSince(Len(wheelLog), Len(scrollLog), 1)
  /\ scrollBufferY = SumSince(Len(wheelLog), Len(scrollLog), 2)
  /\ (scrollRafId = 0 /\ Len(rafQueue) = 0)
       => (Abs(scrollBufferX) <= 2 /\ Abs(scrollBufferY) <= 2)

\* C15 witness: a frame found 0.0001 accumulated and made no call; a later
\* frame delivered that amount together with the next event's
C15_Witness ==
  /\ Len(wheelLog) = 2
  /\ wheelLog[1].frame = 0 /\ wheelLog[2].frame = 1
  /\ wheelLog[1].calls = 0 /\ wheelLog[2].calls = 0
  /\ frameNo = 2
  /\ Len(scrollLog) = 1
  /\ scrollLog[1].dy = -3
  /\ scrollBufferY = 0


\* ========================================================================
\* CodecUtils: classification of a byte buffer
\* ========================================================================
\* header bytes: H.264 IDR (0x65), H.264 SPS (0x67), H.265 VPS (0x40),
\* H.265 IDR_N_LP (0x28), and a byte that is none of the searched types (0x01)
HeaderBytes == {101, 103, 64, 40, 1}

\* what buffers are built of: a 3-byte or 4-byte start code with a header
\* byte, or one filler byte
Pieces ==
  {<<0, 0, 1, h>> : h \in HeaderBytes} \cup {<<0, 0, 0, 1, h>> : h \in HeaderBytes}
    \cup {<<0>>, <<9>>}

RECURSIVE Flatten(_)
Flatten(ps) == IF Len(ps) = 0 THEN <<>> ELSE Head(ps) \o Flatten(Tail(ps))

PieceLists == UNION {[1..n -> Pieces] : n \in 0..MaxPieces}

codecOtherVars == <<wdaVars, frameVars, inputVars, screen, wheelVars, kbVars, extraVars>>

\* data[i], i counted from 0
ByteAt(data, i) == data[i + 1]

\* the values of i the scanning loops visit: for (i = 0; i < data.length - 4; i++)
ScanRange(data) == 0..(Len(data) - 5)

\* length of the start code at i, 0 if there is none (within ScanRange,
\* where i + 3 and i + 4 are inside the buffer)
StartCodeAt(data, i) ==
  IF ByteAt(data, i) = 0 /\ ByteAt(data, i + 1) = 0 /\ ByteAt(data, i + 2) = 1
  THEN 3
  ELSE IF /\ ByteAt(data, i) = 0 /\ ByteAt(data, i + 1) = 0
          /\ ByteAt(data, i + 2) = 0 /\ ByteAt(data, i + 3) = 1
  THEN 4
  ELSE 0

\* data[i + offset] & 0x1f
H264NalType(b) == b % 32

\* (data[i + offset] >> 1) & 0x3f
H265NalType(b) == (b \div 2) % 64

\* the loop of containsH264IDR / containsH265IDR / findH264SPS /
\* findH265ConfigNAL: whether some visited start code is followed by a header
\* byte of one of the given types
ScanFinds(data, IsH265, types) ==
  \E i \in ScanRange(data) :
    LET offset == StartCodeAt(data, i)
    IN /\ offset > 0
       /\ LET b == ByteAt(data, i + offset)
          IN (IF IsH265 THEN H265NalType(b) ELSE H264NalType(b)) \in types

ContainsH264IDR(data) == ScanFinds(data, FALSE, {H264_IDR})

ContainsH265IDR(data) == ScanFinds(data, TRUE, {H265_IDR_W_RADL, H265_IDR_N_LP})

\* findH264SPS(config) !== null
FindH264SPS(config) == ScanFinds(config, FALSE, {H264_SPS})

FindH265ConfigNAL(config) == ScanFinds(config, TRUE, {H265_VPS, H265_SPS, H265_PPS})

DetectCodec(config) ==
  IF FindH264SPS(config) THEN "h264"
  ELSE IF FindH265ConfigNAL(config) THEN "h265"
  ELSE "null"

\* AV1 buffers get the H.264 scan
ContainsKeyFrameAny(data, codec) ==
  IF codec = "h265" THEN ContainsH265IDR(data) ELSE ContainsH264IDR(data)

ContainsKeyFrame(data, codec) ==
  IF codec = "h264" THEN ContainsH264IDR(data)
  ELSE IF codec = "h265" THEN ContainsH265IDR(data)
  ELSE FALSE

\* parseH264SPSDimensions: null without an SPS unit; with one, whatever the
\* SPS parser makes of it ("parsed": dimensions, or null if the parser throws)
ParseH264SPSDimensions(config) ==
  IF FindH264SPS(config) THEN "parsed" ELSE "null"

\* parseConfigDimensions(config, codec); codec "" when the argument is omitted
ParseConfigDimensions(config, codec) ==
  LET detectedCodec == IF codec # "" THEN codec ELSE DetectCodec(config)
  IN IF detectedCodec = "h264" THEN ParseH264SPSDimensions(config) ELSE "null"

InitCodec ==
  /\ InitWDA /\ FrameIdle /\ InputIdle
  /\ SurfaceIdle /\ WheelIdle /\ KbIdle /\ ExtraIdle
  /\ \E ps \in PieceLists : cdata = Flatten(ps)
  /\ cresult = <<>>

\* the static methods are applied to the buffer
Classify ==
  /\ cresult = <<>>
  /\ cresult' = <<[detect |-> DetectCodec(cdata),
                 key264  |-> ContainsKeyFrame(cdata, "h264"),
                 key265  |-> ContainsKeyFrame(cdata, "h265"),
                 keyAv1  |-> ContainsKeyFrame(cdata, "av1"),
                 dimsAv1 |-> ParseConfigDimensions(cdata, "av1"),
                 dims    |-> ParseConfigDimensions(cdata, "")]>>
  /\ UNCHANGED cdata
  /\ UNCHANGED codecOtherVars

NextCodec == Classify

SpecCodec == InitCodec /\ [][NextCodec]_vars

\* ------------------------------------------------------------------------
\* Claims about the classification
\* ------------------------------------------------------------------------
Classified == Len(cresult) = 1

\* positions (from 1) at which a 3-byte or 4-byte start code begins
StartCode3(i) ==
  /\ i + 2 <= Len(cdata)
  /\ cdata[i] = 0 /\ cdata[i + 1] = 0 /\ cdata[i + 2] = 1

StartCode4(i) ==
  /\ i + 3 <= Len(cdata)
  /\ cdata[i] = 0 /\ cdata[i + 1] = 0 /\ cdata[i + 2] = 0 /\ cdata[i + 3] = 1

\* positions of the header bytes: the bytes that immediately follow a start code
HeaderPositions ==
  {i + 3 : i \in {j \in 1..Len(cdata) : StartCode3(j)}}
    \cup {i + 4 : i \in {j \in 1..Len(cdata) : StartCode4(j)}}

H264Units(types) == {q \in HeaderPositions : q <= Len(cdata) /\ (cdata[q] % 32) \in types}

H265Units(types) ==
  {q \in HeaderPositions : q <= Len(cdata) /\ ((cdata[q] \div 2) % 64) \in types}

\* C16: containsKeyFrame(data, 'h264') is true exactly when some start code in
\* the buffer is immediately followed by a byte whose low 5 bits are 5, and
\* containsKeyFrame(data, 'h265') exactly when one is followed by a byte whose
\* bits 1-6 are 19 or 20, wherever in the buffer the unit is, the last byte
\* included.
C16_KeyFrameAnywhere ==
  Classified =>
    /\ cresult[1].key264 <=> (H264Units({5}) # {})
    /\ cresult[1].key265 <=> (H265Units({19, 20}) # {})

\* C17: detectCodec returns 'h264' for every buffer with a start code followed
\* by a type-7 unit, 'h265' for every buffer with a start code followed by a
\* unit of type 32, 33 or 34 (and no H.264 type-7 unit), and null for every
\* buffer without a start code.
C17_DetectCodec ==
  Classified =>
    /\ (H264Units({7}) # {}) => cresult[1].detect = "h264"
    /\ (H265Units({32, 33, 34}) # {} /\ H264Units({7}) = {}) => cresult[1].detect = "h265"
    /\ (HeaderPositions = {}) => cresult[1].detect = "null"

\* C18: when the buffer contains several configuration units, the codec of
\* the first of them in buffer order is the result of detectCodec.
C18_FirstUnitWins ==
  LET config == H264Units({7}) \cup H265Units({32, 33, 34})
      first == CHOOSE q \in config : \A o \in config : q <= o
  IN (Classified /\ Cardinality(config) >= 2)
       => cresult[1].detect = (IF first \in H264Units({7}) THEN "h264" ELSE "h265")

\* C20: AV1 is never classified from the bytes: detectCodec never returns
\* 'av1', containsKeyFrame(data, 'av1') is false and
\* parseConfigDimensions(data, 'av1') is null, whatever the buffer holds.
C20_Av1NeverClassified ==
  Classified =>
    /\ cresult[1].detect \in {"h264", "h265", "null"}
    /\ cresult[1].keyAv1 = FALSE
    /\ cresult[1].dimsAv1 = "null"

\* C20 witness: a buffer with an H.264 SPS and an H.264 IDR unit has been
\* classified: the H.264 answers are positive, the AV1 answers are not
C20_Witness ==
  /\ Classified
  /\ Len(cdata) > 0
  /\ cresult[1].detect = "h264"
  /\ cresult[1].key264
  /\ cresult[1].dims = "parsed"
  /\ ~cresult[1].keyAv1
  /\ cresult[1].dimsAv1 = "null"

\* ========================================================================
\* CodecUtils.parseH264SPSDimensions: dimensions of a parsed parameter set
\* ========================================================================
\* the records parseSPS can hand back, as far as the dimensions read them
SPSRecords ==
  [pic_width_in_mbs        : 1..MaxMbs,
   pic_height_in_map_units : 1..MaxMbs,
   frame_mbs_only_flag     : {0, 1},
   frame_cropping_flag     : {0, 1},
   chroma_format_idc       : 0..3,
   frame_cropping          : [left : 0..MaxCrop, right : 0..MaxCrop,
                              top : 0..MaxCrop, bottom : 0..MaxCrop]]

\* cropUnitY without the frame-only factor
SPSDimensionsFrameCrop(p) ==
  LET frameMbsOnly == p.frame_mbs_only_flag
      width == p.pic_width_in_mbs * 16
      height == p.pic_height_in_map_units * 16 * (2 - frameMbsOnly)
      crop == p.frame_cropping
      subWidthC == IF p.chroma_format_idc = 3 THEN 1 ELSE 2
      subHeightC == IF p.chroma_format_idc \in {2, 3} THEN 1 ELSE 2
      cropX == IF p.frame_cropping_flag # 0 THEN (crop.left + crop.right) * subWidthC ELSE 0
      cropY == IF p.frame_cropping_flag # 0 THEN (crop.top + crop.bottom) * subHeightC ELSE 0
  IN [width |-> width - cropX, height |-> height - cropY]

\* the body of the try block after parseSPS returned p
SPSDimensions(p) ==
  LET frameMbsOnly == p.frame_mbs_only_flag
      width == p.pic_width_in_mbs * 16
      height == p.pic_height_in_map_units * 16 * (2 - frameMbsOnly)
      crop == p.frame_cropping
      subWidthC == IF p.chroma_format_idc = 2 THEN 2
                   ELSE IF p.chroma_format_idc = 3 THEN 1 ELSE 2
      subHeightC == IF p.chroma_format_idc = 2 THEN 1
                    ELSE IF p.chroma_format_idc = 3 THEN 1 ELSE 2
      cropUnitX == subWidthC
      cropUnitY == subHeightC * (2 - frameMbsOnly)
      cropX == IF p.frame_cropping_flag # 0 THEN (crop.left + crop.right) * cropUnitX ELSE 0
      cropY == IF p.frame_cropping_flag # 0 THEN (crop.top + crop.bottom) * cropUnitY ELSE 0
  IN [width |-> width - cropX, height |-> height - cropY]

spsOtherVars == <<wdaVars, frameVars, inputVars, screen, wheelVars, kbVars, codecVars,
                  reconnVars, pointerVars, appVars, kbDisposed, lateVars>>

InitSps ==
  /\ InitWDA /\ FrameIdle /\ InputIdle
  /\ SurfaceIdle /\ WheelIdle /\ KbIdle /\ CodecIdle /\ ReconnIdle /\ PointerIdle /\ AppIdle
  /\ kbDisposed = FALSE /\ LateIdle
  /\ \E p \in SPSRecords : sps = <<p>>
  /\ spsDims = <<>>

\* parseH264SPSDimensions on a buffer whose SPS unit parses to sps[1]
ParseDimensions ==
  /\ Len(sps) = 1
  /\ spsDims = <<>>
  /\ spsDims' = <<SPSDimensions(sps[1])>>
  /\ UNCHANGED sps
  /\ UNCHANGED spsOtherVars

NextSps == ParseDimensions

SpecSps == InitSps /\ [][NextSps]_vars

\* (SubWidthC, SubHeightC) of a chroma format
SubC(idc) == IF idc = 2 THEN <<2, 1>> ELSE IF idc = 3 THEN <<1, 1>> ELSE <<2, 2>>

\* C21: the returned width is 16 * pic_width_in_mbs - (crop_left + crop_right)
\* * SubWidthC and the returned height is 16 * pic_height_in_map_units *
\* (2 - frame_mbs_only_flag) - (crop_top + crop_bottom) * SubHeightC *
\* (2 - frame_mbs_only_flag), with (SubWidthC, SubHeightC) = (2,1) for chroma
\* format 2, (1,1) for chroma format 3 and (2,2) otherwise, and crop terms of
\* zero when frame_cropping_flag is not set.
C21_SPSDimensions ==
  (Len(sps) = 1 /\ Len(spsDims) = 1) =>
    LET p == sps[1]
        f == 2 - p.frame_mbs_only_flag
        set == p.frame_cropping_flag = 1
        cl == IF set THEN p.frame_cropping.left ELSE 0
        cr == IF set THEN p.frame_cropping.right ELSE 0
        ct == IF set THEN p.frame_cropping.top ELSE 0
        cb == IF set THEN p.frame_cropping.bottom ELSE 0
    IN /\ spsDims[1].width = 16 * p.pic_width_in_mbs - (cl + cr) * SubC(p.chroma_format_idc)[1]
       /\ spsDims[1].height = 16 * p.pic_height_in_map_units * f
                                - (ct + cb) * SubC(p.chroma_format_idc)[2] * f

\* C21 witness: an interlaced, cropped 4:2:0 parameter set got its dimensions
C21_Witness ==
  /\ Len(sps) = 1 /\ Len(spsDims) = 1
  /\ sps[1].frame_mbs_only_flag = 0
  /\ sps[1].frame_cropping_flag = 1
  /\ sps[1].chroma_format_idc = 1
  /\ sps[1].frame_cropping.top + sps[1].frame_cropping.bottom > 0
  /\ sps[1].frame_cropping.left > 0
  /\ spsDims[1].height < 16 * sps[1].pic_height_in_map_units * 2

\* ========================================================================
\* Primary Transport Session: reconnection policy
\* (Connecting -> Streaming -> (Reconnecting <-> Streaming) -> Closed)
\* ========================================================================
reconnOtherVars == <<wdaVars, frameVars, inputVars, screen, wheelVars, kbVars, codecVars,
                     spsVars, pointerVars, appVars, kbDisposed, lateVars>>

\* retries are exhausted one failure late
RetriesExhaustedLate(n, r) == n > r

\* "exhausting retries": the n-th failed handshake was the last one allowed
RetriesExhausted(n, r) == n >= r

InitReconn ==
  /\ InitWDA /\ FrameIdle /\ InputIdle
  /\ SurfaceIdle /\ WheelIdle /\ KbIdle /\ CodecIdle /\ SpsIdle /\ PointerIdle /\ AppIdle
  /\ kbDisposed = FALSE /\ LateIdle
  /\ autoReconnect \in BOOLEAN
  /\ retries \in 1..MaxRetries
  /\ connStatus = "Streaming"
  /\ attempts = 0
  /\ reported = 0
  /\ drops = 0
  /\ connLog = <<>>

\* a socket error or unexpected close while Streaming: the reconnect policy
\* if enabled, else terminal
SocketLost ==
  /\ connStatus = "Streaming"
  /\ drops < MaxDrops
  /\ drops' = drops + 1
  /\ attempts' = 0
  /\ IF autoReconnect
     THEN /\ connStatus' = "Reconnecting"
          /\ connLog' = Append(connLog, "lost")
          /\ UNCHANGED reported
     ELSE /\ connStatus' = "Closed"
          /\ connLog' = Append(Append(connLog, "lost"), "closed")
          /\ reported' = reported + 1
  /\ UNCHANGED <<autoReconnect, retries>>
  /\ UNCHANGED reconnOtherVars

\* a re-run handshake succeeds
HandshakeOk ==
  /\ connStatus = "Reconnecting"
  /\ connStatus' = "Streaming"
  /\ connLog' = Append(connLog, "ok")
  /\ UNCHANGED <<autoReconnect, retries, attempts, reported, drops>>
  /\ UNCHANGED reconnOtherVars

\* a re-run handshake fails (error, or the connect timeout passes)
HandshakeFail ==
  /\ connStatus = "Reconnecting"
  /\ attempts' = attempts + 1
  /\ IF RetriesExhausted(attempts + 1, retries)
     THEN /\ connStatus' = "Closed"
          /\ connLog' = Append(Append(connLog, "fail"), "closed")
          /\ reported' = reported + 1
     ELSE /\ connLog' = Append(connLog, "fail")
          /\ UNCHANGED <<connStatus, reported>>
  /\ UNCHANGED <<autoReconnect, retries, drops>>
  /\ UNCHANGED reconnOtherVars

NextReconn == SocketLost \/ HandshakeOk \/ HandshakeFail

\* every handshake is bounded by the connect timeout, so an attempt that has
\* started ends
SpecReconn == InitReconn /\ [][NextReconn]_vars /\ WF_vars(HandshakeOk \/ HandshakeFail)

\* C22: with auto-reconnect enabled and R retries, a socket lost while
\* Streaming moves the session to Reconnecting; from there it returns to
\* Streaming on a successful handshake, and otherwise reaches Closed exactly
\* with the R-th failed attempt, reporting one terminal error; it never makes
\* more than R attempts and does not stay in Reconnecting forever.
C22_ReconnectPolicy ==
  /\ [][(autoReconnect /\ connStatus = "Streaming" /\ connStatus' # "Streaming")
          => connStatus' = "Reconnecting"]_vars
  /\ [][(connStatus = "Reconnecting" /\ connStatus' = "Streaming")
          => (attempts' < retries /\ reported' = 0)]_vars
  /\ [][(autoReconnect /\ connStatus # "Closed" /\ connStatus' = "Closed")
          => (attempts' = retries /\ attempts = retries - 1 /\ reported' = reported + 1)]_vars
  /\ [](autoReconnect => attempts <= retries)
  /\ [](autoReconnect => reported = (IF connStatus = "Closed" THEN 1 ELSE 0))
  /\ [](connStatus = "Reconnecting" => attempts < retries)
  /\ ((connStatus = "Reconnecting") ~> (connStatus # "Reconnecting"))

\* C22 witness: with two or more retries configured the session reconnected
\* once after a failed attempt, lost the socket again and was closed with the
\* last allowed attempt
C22_Witness ==
  /\ autoReconnect
  /\ retries >= 2
  /\ connStatus = "Closed"
  /\ attempts = retries
  /\ reported = 1
  /\ \E i \in 1..Len(connLog) : connLog[i] = "ok" /\ i > 1 /\ connLog[i - 1] = "fail"

\* ========================================================================
\* InputHandler: pointer events
\* ========================================================================
pointerOtherVars == <<wdaVars, frameVars, inputVars, screen, wheelVars, kbVars, codecVars,
                      spsVars, reconnVars, appVars, kbDisposed, lateVars>>

PointerIds == {1, 2}
PointerPts == {<<1, 1>>, <<3, -1>>}
\* time that passes before an event, in ms: none, or a throttle interval
Ticks == {0, MOVE_THROTTLE_MS}
EndTypes == {"pointerup", "pointercancel", "pointerleave"}

InputCall(action, pt) ==
  [action |-> action,
   x |-> NormalizedCoords([x |-> pt[1], y |-> pt[2]])[1],
   y |-> NormalizedCoords([x |-> pt[1], y |-> pt[2]])[2]]

\* onPointerUp without the test of this.isPointerDown
UpHandledUntracked(down, tracked, type, id) == id = tracked \/ type = "pointerleave"

\* the negated guard of onPointerUp
UpHandled(down, tracked, type, id) ==
  down /\ (id = tracked \/ type = "pointerleave")

\* what every dispatch of a pointer event does
PointerDispatch(type, id, dt) ==
  /\ ~disposed
  /\ ptrEvents < MaxPointerEvents
  /\ ptrEvents' = ptrEvents + 1
  /\ clock' = clock + dt
  /\ lastPtrEvent' = [type |-> type, id |-> id]
  /\ UNCHANGED disposed
  /\ UNCHANGED pointerOtherVars

OnPointerDown ==
  \E id \in PointerIds, pt \in PointerPts, dt \in Ticks :
    /\ PointerDispatch("pointerdown", id, dt)
    /\ IF isPointerDown
       THEN UNCHANGED <<isPointerDown, pointerId, inputLog>>
       ELSE /\ isPointerDown' = TRUE
            /\ pointerId' = id
            /\ inputLog' = Append(inputLog, InputCall("down", pt))
    /\ UNCHANGED lastMoveTime

OnPointerMove ==
  \E id \in PointerIds, pt \in PointerPts, dt \in Ticks :
    /\ PointerDispatch("pointermove", id, dt)
    /\ IF ~isPointerDown \/ id # pointerId
       THEN UNCHANGED <<lastMoveTime, inputLog>>
       ELSE IF clock' - lastMoveTime < MOVE_THROTTLE_MS
       THEN UNCHANGED <<lastMoveTime, inputLog>>
       ELSE /\ lastMoveTime' = clock'
            /\ inputLog' = Append(inputLog, InputCall("move", pt))
    /\ UNCHANGED <<isPointerDown, pointerId>>

\* pointerup, pointercancel and pointerleave share the handler
OnPointerUp ==
  \E type \in EndTypes, id \in PointerIds, pt \in PointerPts, dt \in Ticks :
    /\ PointerDispatch(type, id, dt)
    /\ IF UpHandled(isPointerDown, pointerId, type, id)
       THEN /\ isPointerDown' = FALSE
            /\ pointerId' = 0
            /\ inputLog' = Append(inputLog, InputCall("up", pt))
       ELSE UNCHANGED <<isPointerDown, pointerId, inputLog>>
    /\ UNCHANGED lastMoveTime

InitPointer ==
  /\ InitWDA /\ FrameIdle /\ InputIdle
  /\ SurfaceIdle /\ WheelIdle /\ KbIdle /\ CodecIdle
  /\ ExtraIdle

NextPointer == OnPointerDown \/ OnPointerMove \/ OnPointerUp

SpecPointer == InitPointer /\ [][NextPointer]_vars

\* the onInput call made in this step, if one is made
InputDelivered(action) ==
  /\ Len(inputLog') = Len(inputLog) + 1
  /\ inputLog'[Len(inputLog')].action = action

\* C26: the actions delivered to onInput form repetitions of 'down', zero or
\* more 'move', 'up': a 'down' is delivered only while no pointer is tracked,
\* 'move' and 'up' only while one is, and a pointerdown or pointermove of a
\* pointer other than the tracked one delivers nothing.
C26_PointerLifecycle ==
  /\ [](\A i \in 1..Len(inputLog) :
          IF inputLog[i].action = "down"
          THEN i = 1 \/ inputLog[i - 1].action = "up"
          ELSE i > 1 /\ inputLog[i - 1].action \in {"down", "move"})
  /\ [](isPointerDown <=>
          (Len(inputLog) > 0 /\ inputLog[Len(inputLog)].action \in {"down", "move"}))
  /\ [][InputDelivered("down") => ~isPointerDown]_vars
  /\ [][(InputDelivered("move") \/ InputDelivered("up")) => isPointerDown]_vars
  /\ [][(/\ isPointerDown
         /\ ptrEvents' > ptrEvents
         /\ lastPtrEvent'.type \in {"pointerdown", "pointermove"}
         /\ lastPtrEvent'.id # pointerId)
          => UNCHANGED <<inputLog, isPointerDown, pointerId>>]_vars
  /\ [](Len(inputLog) <= ptrEvents)

\* C26 witness: four pointer events were dispatched, one of them was ignored,
\* and 'down', 'move', 'up' were delivered, the 'up' for pointer 1
C26_Witness ==
  /\ Len(inputLog) = 3
  /\ inputLog[1].action = "down" /\ inputLog[2].action = "move" /\ inputLog[3].action = "up"
  /\ ptrEvents = 4
  /\ ~isPointerDown
  /\ lastPtrEvent = [type |-> "pointerup", id |-> 1]

\* C37: an 'up' is delivered through onInput only in response to a
\* pointerup, pointercancel or pointerleave event of the tracked pointer, and
\* such an event of any other pointer does not end the tracked gesture.
C37_UpOnlyForTrackedPointer ==
  /\ [][InputDelivered("up") =>
          (lastPtrEvent'.type \in EndTypes /\ lastPtrEvent'.id = pointerId)]_vars
  /\ [][(/\ isPointerDown
         /\ ptrEvents' > ptrEvents
         /\ lastPtrEvent'.type \in EndTypes
         /\ lastPtrEvent'.id # pointerId)
          => UNCHANGED <<inputLog, isPointerDown, pointerId>>]_vars

\* ========================================================================
\* InputHandler: the pointer events and the touch events of the same fingers
\* ========================================================================
\* The canvas listens to both families; for every change of a finger the
\* browser dispatches the pointer event first and the touch event after it.
\* The positions the two events report are drawn independently.

\* the touch event that belongs to the last pointer event is still to come
TouchDue == ptrEvents > Len(evLog)

\* the contacts the last touch event was about
LastChanged == evLog'[Len(evLog')].changed

FingerPointerDown ==
  /\ ~TouchDue
  /\ OnPointerDown
  /\ lastPtrEvent'.id \notin IdsOn(screen)

FingerTouchStart ==
  /\ TouchDue
  /\ lastPtrEvent.type = "pointerdown"
  /\ CanvasContactDown
  /\ LastChanged = {lastPtrEvent.id}

FingerPointerMove ==
  /\ ~TouchDue
  /\ OnPointerMove
  /\ lastPtrEvent'.id \in IdsOn(screen)

FingerTouchMove ==
  /\ TouchDue
  /\ lastPtrEvent.type = "pointermove"
  /\ CanvasContactMove
  /\ LastChanged = {lastPtrEvent.id}

\* a finger is lifted (pointerup) or its contact is cancelled (pointercancel)
FingerPointerUp ==
  /\ ~TouchDue
  /\ OnPointerUp
  /\ lastPtrEvent'.type \in {"pointerup", "pointercancel"}
  /\ lastPtrEvent'.id \in IdsOn(screen)

FingerTouchEnd ==
  /\ TouchDue
  /\ lastPtrEvent.type \in {"pointerup", "pointercancel"}
  /\ CanvasContactUp
  /\ LastChanged = {lastPtrEvent.id}

NextFingers ==
  \/ FingerPointerDown
  \/ FingerTouchStart
  \/ FingerPointerMove
  \/ FingerTouchMove
  \/ FingerPointerUp
  \/ FingerTouchEnd

SpecFingers == InitPointer /\ [][NextFingers]_vars

\* a two-finger gesture is open: its 'down' was emitted, its 'up' was not
PinchOpen == Len(mtLog) > 0 /\ mtLog[Len(mtLog)].action \in {"down", "move"}

\* a single-pointer gesture is open
SingleOpen == Len(inputLog) > 0 /\ inputLog[Len(inputLog)].action \in {"down", "move"}

\* C36: single-pointer and two-finger gestures are never open at the same
\* time: while a multi-touch 'down' is open nothing is delivered through
\* onInput, and while an onInput 'down' is open no multi-touch 'down' is
\* emitted, whatever the fingers do.
C36_GesturesExclusive ==
  /\ [](~(PinchOpen /\ SingleOpen))
  /\ [][PinchOpen => inputLog' = inputLog]_vars
  /\ [][SingleOpen =>
          ~(Len(mtLog') > Len(mtLog) /\ mtLog'[Len(mtLog')].action = "down")]_vars

\* ========================================================================
\* InputHandler.dispose
\* ========================================================================
\* events dispatched to the canvas so far: pointer, wheel and touch events
CanvasEvents == ptrEvents + Len(wheelLog) + Len(evLog)

\* dispose(): the listeners are removed and the tracking state is reset; the
\* scroll fields, a requested animation frame included, are left as they are
Dispose ==
  /\ ~disposed
  /\ disposed' = TRUE
  /\ isPointerDown' = FALSE
  /\ pointerId' = 0
  /\ isPinching' = FALSE
  /\ activeTouches' = <<>>
  /\ UNCHANGED <<initialPinchDistance, hasMultiTouch, mtLog, evLog>>
  /\ UNCHANGED <<lastMoveTime, clock, inputLog, lastPtrEvent, ptrEvents>>
  /\ UNCHANGED <<wdaVars, frameVars, screen, wheelVars, kbVars, codecVars, spsVars, reconnVars,
                 appVars, kbDisposed, lateVars>>

\* an InputHandler with all callbacks, the events of its canvas, the
\* animation frames of the window, and dispose()
NextDispose ==
  \/ CanvasEvents < MaxDisposeEvents /\ OnPointerDown
  \/ CanvasEvents < MaxDisposeEvents /\ OnPointerMove
  \/ CanvasEvents < MaxDisposeEvents /\ OnPointerUp
  \/ CanvasEvents < MaxDisposeEvents /\ ~disposed /\ OnWheelEvent
  \/ CanvasEvents < MaxDisposeEvents /\ ~disposed /\ PinchStart
  \/ CanvasEvents < MaxDisposeEvents /\ ~disposed /\ PinchMove
  \/ CanvasEvents < MaxDisposeEvents /\ ~disposed /\ PinchEnd
  \/ AnimationFrame
  \/ Dispose

SpecDispose == InitPointer /\ [][NextDispose]_vars

\* C27: once dispose() has returned, none of onInput, onScroll and
\* onMultiTouch is invoked again, also not for work scheduled before, such as
\* a pending scroll animation frame.
C27_NoCallbackAfterDispose ==
  [][disposed => (/\ inputLog' = inputLog
                  /\ scrollLog' = scrollLog
                  /\ mtLog' = mtLog)]_vars

\* ========================================================================
\* AppStateManager: devices, active device, cached device info
\* ========================================================================
appOtherVars == <<wdaVars, frameVars, inputVars, screen, wheelVars, kbVars, codecVars,
                  spsVars, reconnVars, pointerVars, kbDisposed, lateVars>>

DeviceIds == {"device_1", "device_2"}
Serials == {"abc123", "def456"}

\* Map.prototype.delete on devices
DeleteDevice(map, id) == [k \in DOMAIN map \ {id} |-> map[k]]

\* removeDevice that leaves the cached info in place
InfoAfterRemoveKept(info, serial) == info

\* this.state.deviceInfo.delete(device.serial)
InfoAfterRemove(info, serial) == info \ {serial}

\* every mutation: one more call; notifyListeners() where the code calls it
Mutation(op, notifies) ==
  /\ stateOps < MaxStateOps
  /\ stateOps' = stateOps + 1
  /\ lastOp' = op
  /\ notifyScheduled' = (notifyScheduled \/ notifies)
  /\ changedOps' = IF notifies THEN stateOps' ELSE changedOps
  /\ UNCHANGED appOtherVars

AddDevice ==
  \E id \in DeviceIds, serial \in Serials, active \in BOOLEAN :
    /\ Mutation([NoOp EXCEPT !.op = "addDevice", !.id = id], TRUE)
    /\ devices' = [k \in DOMAIN devices \cup {id} |->
                     IF k = id THEN [serial |-> serial, isActive |-> active]
                     ELSE devices[k]]
    /\ UNCHANGED <<activeDeviceId, deviceInfo>>

RemoveDevice ==
  \E id \in DeviceIds :
    LET existed == id \in DOMAIN devices
        serial == IF existed THEN devices[id].serial ELSE "null"
    IN /\ Mutation([op |-> "removeDevice", id |-> id, existed |-> existed,
                    hadInfo |-> serial \in deviceInfo,
                    wasActive |-> activeDeviceId = id], existed)
       /\ devices' = DeleteDevice(devices, id)
       /\ deviceInfo' = IF existed THEN InfoAfterRemove(deviceInfo, serial) ELSE deviceInfo
       /\ activeDeviceId' = IF existed /\ activeDeviceId = id THEN "null" ELSE activeDeviceId

SetActiveDevice ==
  \E id \in DeviceIds \cup {"null"} :
    /\ Mutation([NoOp EXCEPT !.op = "setActiveDevice", !.id = id], activeDeviceId # id)
    /\ IF activeDeviceId = id
       THEN UNCHANGED <<devices, activeDeviceId>>
       ELSE /\ devices' = [k \in DOMAIN devices |-> [devices[k] EXCEPT !.isActive = (k = id)]]
            /\ activeDeviceId' = id
    /\ UNCHANGED deviceInfo

SetDeviceInfo ==
  \E serial \in Serials :
    /\ Mutation([NoOp EXCEPT !.op = "setDeviceInfo", !.id = serial], TRUE)
    /\ deviceInfo' = deviceInfo \cup {serial}
    /\ UNCHANGED <<devices, activeDeviceId>>

\* updateDevice(deviceId, updates) with updates = { isActive }
UpdateDevice ==
  \E id \in DeviceIds, active \in BOOLEAN :
    LET existed == id \in DOMAIN devices
    IN /\ Mutation([NoOp EXCEPT !.op = "updateDevice", !.id = id, !.existed = existed],
                   existed)
       /\ devices' = IF existed THEN [devices EXCEPT ![id].isActive = active] ELSE devices
       /\ UNCHANGED <<activeDeviceId, deviceInfo>>

ClearAllDevices ==
  LET had == DOMAIN devices # {} \/ activeDeviceId # "null" \/ deviceInfo # {}
  IN /\ Mutation([NoOp EXCEPT !.op = "clearAllDevices", !.existed = had], had)
     /\ devices' = <<>>
     /\ activeDeviceId' = "null"
     /\ deviceInfo' = {}

\* the microtask queued by notifyListeners runs
NotifyMicrotask ==
  /\ notifyScheduled
  /\ notifyScheduled' = FALSE
  /\ UNCHANGED <<devices, activeDeviceId, deviceInfo, lastOp, stateOps, changedOps>>
  /\ UNCHANGED appOtherVars

InitApp ==
  /\ InitWDA /\ FrameIdle /\ InputIdle
  /\ SurfaceIdle /\ WheelIdle /\ KbIdle /\ CodecIdle
  /\ ExtraIdle

NextApp ==
  \/ AddDevice
  \/ UpdateDevice
  \/ RemoveDevice
  \/ SetActiveDevice
  \/ SetDeviceInfo
  \/ ClearAllDevices
  \/ NotifyMicrotask

SpecApp == InitApp /\ [][NextApp]_vars

\* the mutation op is called in this step
Called(op) == stateOps' > stateOps /\ lastOp'.op = op

\* C29: removeDevice(id) of an existing device removes that device, removes
\* the deviceInfo entry stored under that device's serial, and sets
\* activeDeviceId to null if the device was the active one; clearAllDevices
\* leaves no device, no deviceInfo entry and activeDeviceId null.
C29_RemoveClearsDevice ==
  /\ [][(Called("removeDevice") /\ lastOp'.id \in DOMAIN devices) =>
          /\ lastOp'.id \notin DOMAIN devices'
          /\ devices[lastOp'.id].serial \notin deviceInfo'
          /\ (activeDeviceId = lastOp'.id => activeDeviceId' = "null")]_vars
  /\ [][Called("clearAllDevices") =>
          /\ DOMAIN devices' = {}
          /\ deviceInfo' = {}
          /\ activeDeviceId' = "null"]_vars

\* C38: activeDeviceId is null or the id of a device in the device map, and a
\* device's isActive flag is true exactly when its id equals activeDeviceId.
C38_ActiveDeviceConsistent ==
  /\ (activeDeviceId = "null" \/ activeDeviceId \in DOMAIN devices)
  /\ \A k \in DOMAIN devices : devices[k].isActive <=> (k = activeDeviceId)

\* C29 witness: the active device, which had cached info, was removed: its
\* entry, its info and the active id are gone
C29_Witness ==
  /\ lastOp.op = "removeDevice"
  /\ lastOp.existed /\ lastOp.hadInfo /\ lastOp.wasActive
  /\ activeDeviceId = "null"
  /\ deviceInfo = {}
  /\ lastOp.id \notin DOMAIN devices

\* ========================================================================
\* AppStateManager: batched notification of the listeners
\* ========================================================================
notifyOtherVars == <<wdaVars, frameVars, inputVars, screen, wheelVars, kbVars, codecVars,
                     spsVars, reconnVars, pointerVars, kbDisposed, setupVars, streamVars>>

\* a listener either only receives the snapshot or calls setDeviceInfo from
\* inside the callback
ListenerLists ==
  {<<>>, <<"observer">>, <<"mutator">>, <<"observer", "observer">>,
   <<"observer", "mutator">>, <<"mutator", "observer">>}

ListenerSerial == "abc123"

\* getSnapshot()
Snapshot ==
  [devices |-> devices, activeDeviceId |-> activeDeviceId, deviceInfo |-> deviceInfo]

\* setMonitoring: changes state.isMonitoring, does not call notifyListeners
SetMonitoring ==
  \E m \in BOOLEAN :
    /\ stateOps < MaxStateOps
    /\ stateOps' = stateOps + 1
    /\ lastOp' = [NoOp EXCEPT !.op = "setMonitoring"]
    /\ isMonitoring' = m
    /\ monitorOps' = IF m # isMonitoring THEN stateOps' ELSE monitorOps
    /\ UNCHANGED <<devices, activeDeviceId, deviceInfo, notifyScheduled, changedOps>>
    /\ UNCHANGED <<listeners, delivered, notifiedOps>>
    /\ UNCHANGED notifyOtherVars

\* a callback that clears notifyScheduled after the listeners have run
ScheduledAfterRunLate(mutated) == FALSE

\* notifyScheduled when the callback returns: cleared before the listeners
\* run, set again by a mutation that a listener makes
ScheduledAfterRun(mutated) == mutated

\* the microtask queued by notifyListeners: one snapshot, every listener
\* called with it in insertion order
NotifyListenersRun ==
  /\ notifyScheduled
  /\ LET mutates == /\ \E i \in 1..Len(listeners) : listeners[i] = "mutator"
                    /\ stateOps < MaxStateOps
     IN /\ delivered' = [i \in 1..Len(listeners) |->
                           [count |-> delivered[i].count + 1, last |-> Snapshot]]
        /\ notifiedOps' = stateOps
        /\ notifyScheduled' = ScheduledAfterRun(mutates)
        /\ IF mutates
           THEN /\ deviceInfo' = deviceInfo \cup {ListenerSerial}
                /\ stateOps' = stateOps + 1
                /\ changedOps' = stateOps'
                /\ lastOp' = [NoOp EXCEPT !.op = "setDeviceInfo", !.id = ListenerSerial]
           ELSE UNCHANGED <<deviceInfo, stateOps, changedOps, lastOp>>
  /\ UNCHANGED <<devices, activeDeviceId, isMonitoring, monitorOps, listeners>>
  /\ UNCHANGED notifyOtherVars

InitNotify ==
  /\ InitWDA /\ FrameIdle /\ InputIdle
  /\ SurfaceIdle /\ WheelIdle /\ KbIdle /\ CodecIdle
  /\ SpsIdle /\ ReconnIdle /\ PointerIdle /\ AppIdle /\ kbDisposed = FALSE
  /\ isMonitoring = FALSE
  /\ monitorOps = 0
  /\ listeners \in ListenerLists
  /\ delivered = [i \in 1..Len(listeners) |-> [count |-> 0, last |-> NoSnapshot]]
  /\ notifiedOps = 0
  /\ SetupIdle /\ StreamIdle

\* the device and the serial the callers of this component use
NotifyArgs == {"device_1", "abc123", "null"}

NextNotify ==
  \/ AddDevice /\ lastOp'.id \in NotifyArgs /\ devices'[lastOp'.id].serial \in NotifyArgs
  \/ RemoveDevice /\ lastOp'.id \in NotifyArgs
  \/ SetActiveDevice /\ lastOp'.id \in NotifyArgs
  \/ SetDeviceInfo /\ lastOp'.id \in NotifyArgs
  \/ ClearAllDevices
  \/ SetMonitoring
  \/ NotifyListenersRun

\* the microtask queue is drained before anything else runs
SpecNotify == InitNotify /\ [][NextNotify]_vars /\ WF_vars(NotifyListenersRun)

\* listeners are called only by the queued callback, each exactly once and
\* with the state as it is when the callback runs, and a callback is queued
\* exactly while a change of the snapshot state awaits its notification
BatchedDelivery ==
  /\ [][delivered' # delivered =>
          /\ notifyScheduled
          /\ \A i \in 1..Len(listeners) :
               /\ delivered'[i].count = delivered[i].count + 1
               /\ delivered'[i].last = Snapshot]_vars
  /\ [](notifyScheduled <=> changedOps > notifiedOps)
  /\ [](\A i \in 1..Len(listeners) : delivered[i].count <= changedOps)

\* C31 (as stated): the mutations of one turn give one notification per
\* listener, in a later microtask, with a snapshot that reflects them all;
\* every state-changing mutation, setMonitoring included, is eventually
\* followed by a notification.
C31_EveryChangeNotified ==
  /\ BatchedDelivery
  /\ \A n \in 1..(MaxStateOps + 1) :
       ((changedOps = n \/ monitorOps = n) /\ notifiedOps < n) ~> (notifiedOps >= n)

\* C31 (amended): the mutations of one turn give one notification per
\* listener, in a later microtask, with a snapshot that reflects them all;
\* every mutation that changes the state contained in the snapshot, also one
\* made from inside a listener, is eventually followed by a notification
\* (setMonitoring changes isMonitoring and notifies nobody).
C31_SnapshotChangeNotified ==
  /\ BatchedDelivery
  /\ \A n \in 1..(MaxStateOps + 1) :
       (changedOps = n /\ notifiedOps < n) ~> (notifiedOps >= n)

\* C31 witness: two mutations (a device added, device info stored) were made
\* before the callback ran; each of two listeners was called once, with a
\* snapshot holding both changes
C31_Witness ==
  /\ Len(listeners) = 2
  /\ stateOps = 2 /\ changedOps = 2 /\ notifiedOps = 2
  /\ \A i \in 1..2 : delivered[i].count = 1 /\ delivered[i].last = Snapshot
  /\ DOMAIN devices # {}
  /\ deviceInfo # {}

\* ========================================================================
\* KeyboardHandler: pressed keys, focus loss and dispose (modelled from the
\* specification and the unit tests, as the text buffering above)
\* ========================================================================
kbBaseVars == <<wdaVars, frameVars, inputVars, screen, wheelVars, codecVars,
                spsVars, reconnVars, pointerVars, appVars, lateVars>>

\* dispose that flushes the text and leaves the pressed keys pressed
DisposeCallsNoRelease(buf, keys, at) == FlushCalls(buf, at)

\* the callbacks of dispose(): the buffered text, a key-up for every pressed key
DisposeCalls(buf, keys, at) == FlushCalls(buf, at) \o ReleaseCalls(keys, at)

\* dispose(): flush, release, drop the focus, remove the listeners
KbDispose ==
  /\ ~kbDisposed
  /\ kbSteps < MaxKeyEvents
  /\ kbSteps' = kbSteps + 1
  /\ kbDisposed' = TRUE
  /\ focused' = FALSE
  /\ kbLog' = kbLog \o DisposeCalls(textBuffer, pressedKeys, kbSteps')
  /\ textBuffer' = <<>>
  /\ pressedKeys' = {}
  /\ UNCHANGED typed
  /\ UNCHANGED kbBaseVars

\* a click or a keyboard event on the canvas after dispose(): no listener
KbEventAfterDispose ==
  /\ kbDisposed
  /\ kbSteps < MaxKeyEvents
  /\ kbSteps' = kbSteps + 1
  /\ UNCHANGED <<focused, textBuffer, pressedKeys, kbLog, typed, kbDisposed>>
  /\ UNCHANGED kbBaseVars

NextKbDispose ==
  \/ ~kbDisposed /\ KbFocus
  \/ ~kbDisposed /\ KbBlur
  \/ ~kbDisposed /\ KeyDownPrintable
  \/ ~kbDisposed /\ KbIdleTimeout
  \/ ~kbDisposed /\ KeyDownSpecial
  \/ ~kbDisposed /\ KeyUpSpecial
  \/ ~kbDisposed /\ KeyDownClipboard
  \/ ~kbDisposed /\ KeyIgnored
  \/ KbDispose
  \/ KbEventAfterDispose

SpecKbDispose == InitKb /\ [][NextKbDispose]_vars

\* the key-up callbacks for key x among the callbacks made in this step
NewKeyUps(x) ==
  {k \in (Len(kbLog) + 1)..Len(kbLog') : kbLog'[k].cb = "keyup" /\ kbLog'[k].arg = x}

\* C30: a key-up callback is delivered only for a key whose key-down was
\* delivered and that has not been released since; a focus loss or dispose()
\* delivers exactly one key-up for every key still pressed (and none for any
\* other key), after which a keyup event for such a key delivers nothing.
C30_KeyUpOnlyForPressed ==
  /\ [](\A k \in 1..Len(kbLog) :
          kbLog[k].cb = "keyup" =>
            \E j \in 1..(k - 1) :
              /\ kbLog[j].cb = "keydown" /\ kbLog[j].arg = kbLog[k].arg
              /\ \A m \in (j + 1)..(k - 1) :
                   ~(kbLog[m].cb = "keyup" /\ kbLog[m].arg = kbLog[k].arg))
  /\ [](\A x \in SpecialKeys :
          x \in pressedKeys <=>
            \E j \in 1..Len(kbLog) :
              /\ kbLog[j].cb = "keydown" /\ kbLog[j].arg = x
              /\ \A m \in (j + 1)..Len(kbLog) : ~(kbLog[m].cb = "keyup" /\ kbLog[m].arg = x))
  /\ [][((focused /\ ~focused') \/ (~kbDisposed /\ kbDisposed'))
          => /\ \A x \in SpecialKeys :
                  Cardinality(NewKeyUps(x)) = (IF x \in pressedKeys THEN 1 ELSE 0)
             /\ pressedKeys' = {}]_vars
  /\ [](kbDisposed => pressedKeys = {} /\ ~focused)

\* C30 witness: Enter and Tab were pressed when the handler was disposed of:
\* one key-up for each was delivered in that step, and an event that came
\* later delivered nothing
C30_Witness ==
  /\ kbDisposed
  /\ Len(kbLog) = 4
  /\ kbLog[1].cb = "keydown" /\ kbLog[2].cb = "keydown"
  /\ kbLog[3].cb = "keyup" /\ kbLog[4].cb = "keyup"
  /\ kbLog[3].arg # kbLog[4].arg
  /\ kbLog[3].at = kbLog[4].at
  /\ kbSteps > kbLog[4].at

\* ========================================================================
\* WDASetupManager (iOSConnection.ts): the setup script as a child process
\* ========================================================================
setupOtherVars == <<wdaVars, frameVars, inputVars, screen, wheelVars, kbVars, codecVars,
                    spsVars, reconnVars, pointerVars, appVars, kbDisposed, notifyVars,
                    streamVars>>

\* the output of the script as a sequence of words; NL ends a line
NL == "\n"

SetupScripts ==
  {<<"Building", "WebDriverAgent", NL>>,
   <<"BUILD FAILED", NL, "Press Enter to", "retry", NL>>,
   <<"Ready!", "Touch input", NL>>,
   <<"Press Enter to", "continue", NL>>}

ExitCodes == {"0", "1", "null"}

\* position of the first NL of text, 0 if there is none
FirstNL(text) ==
  IF \E i \in 1..Len(text) : text[i] = NL
  THEN CHOOSE i \in 1..Len(text) : text[i] = NL /\ \A j \in 1..(i - 1) : text[j] # NL
  ELSE 0

RECURSIVE SplitLines(_)
\* text.split(/\r?\n/)
SplitLines(text) ==
  LET k == FirstNL(text)
  IN IF k = 0 THEN <<text>>
     ELSE <<SubSeq(text, 1, k - 1)>> \o SplitLines(SubSeq(text, k + 1, Len(text)))

\* the words a and b follow each other in the line
Adjacent(line, a, b) ==
  \E i \in 1..(Len(line) - 1) : line[i] = a /\ line[i + 1] = b

\* USER_ACTION_PATTERN = /Press Enter to (retry|continue)/i
UserActionLine(line) ==
  Adjacent(line, "Press Enter to", "retry") \/ Adjacent(line, "Press Enter to", "continue")

\* STATE_PATTERNS, first match: /Building WebDriverAgent/i, /Ready!.*Touch input/i
StateOfLine(line) ==
  IF Adjacent(line, "Building", "WebDriverAgent") THEN "building"
  ELSE IF \E i, j \in 1..Len(line) :
            i < j /\ line[i] = "Ready!" /\ line[j] = "Touch input" THEN "ready"
  ELSE "none"

\* /error|failed|not found/i
ErrorLine(line) == \E i \in 1..Len(line) : line[i] = "BUILD FAILED"

\* detectInstructions: the first INSTRUCTION_PATTERNS trigger that matches the
\* recent output (/BUILD FAILED|build.*failed/i)
DetectInstructions(recent, last) ==
  IF \E k \in 1..Len(recent) : \E i \in 1..Len(recent[k]) : recent[k][i] = "BUILD FAILED"
  THEN "build"
  ELSE last

\* getStatus() of manager m as an event from the handlers of child src
StatusEvent(m, ev, src) ==
  [ev |-> ev, state |-> m.state, action |-> m.pending,
   instr |-> IF m.pending /\ m.last # "none" THEN m.last ELSE "none", src |-> src]

\* updateState
UpdateState(m, state, src) ==
  LET m1 == [m EXCEPT !.state = state,
                      !.last = IF state = "configuring"
                               THEN DetectInstructions(m.recent, m.last) ELSE m.last]
  IN [m1 EXCEPT !.log = Append(m1.log, StatusEvent(m1, "state-change", src))]

\* emitUserActionRequired
EmitUserActionRequired(m, src) ==
  LET m1 == [m EXCEPT !.last = DetectInstructions(m.recent, m.last)]
  IN [m1 EXCEPT !.log = Append(m1.log,
        [ev |-> "user-action-required", state |-> m1.state, action |-> TRUE,
         instr |-> m1.last, src |-> src])]

\* parseLine
ParseLine(m, line, src) ==
  IF UserActionLine(line) THEN EmitUserActionRequired([m EXCEPT !.pending = TRUE], src)
  ELSE IF StateOfLine(line) # "none" THEN UpdateState(m, StateOfLine(line), src)
  ELSE IF ErrorLine(line)
       THEN [m EXCEPT !.last = DetectInstructions(m.recent, m.last)]
  ELSE m

\* recentOutput.push(line), shift() beyond 50 lines
PushRecent(recent, line) ==
  LET r == Append(recent, line)
  IN IF Len(r) > RECENT_OUTPUT_MAX THEN Tail(r) ELSE r

RECURSIVE ParseLines(_, _, _)
\* the loop of parseOutput over the lines of one chunk
ParseLines(m, lines, src) ==
  IF lines = <<>> THEN m
  ELSE LET line == Head(lines)
       IN ParseLines(IF line = <<>> THEN m
                     ELSE ParseLine([m EXCEPT !.recent = PushRecent(m.recent, line)],
                                    line, src),
                     Tail(lines), src)

\* parseOutput(text); the 'output' event of each line is not recorded
ParseOutput(m, text, src) == ParseLines(m, SplitLines(text), src)

\* the fields parseOutput reads and writes
Manager ==
  [state |-> currentState, pending |-> pendingUserAction, recent |-> recentOutput,
   last |-> lastInstructions, log |-> setupLog]

\* the manager right after start(), with nothing logged
Started ==
  [state |-> "checking_xcode", pending |-> FALSE, recent |-> <<>>, last |-> "none",
   log |-> <<>>]

\* start()
SetupStart ==
  /\ process = 0
  /\ Len(children) < MaxRuns
  /\ \E script \in SetupScripts :
       children' = Append(children, [script |-> script, out |-> script, closed |-> FALSE,
                                     errored |-> FALSE, code |-> "none", signals |-> {}])
  /\ process' = Len(children) + 1
  /\ currentState' = "checking_xcode"
  /\ outputBuffer' = <<>>
  /\ recentOutput' = <<>>
  /\ pendingUserAction' = FALSE
  /\ lastInstructions' = "none"
  /\ setupLog' = Append(setupLog, StatusEvent(Started, "state-change", 0))
  /\ UNCHANGED <<killTimers, cancelledProcs, nCancel>>
  /\ UNCHANGED setupOtherVars

\* cancel(): SIGTERM, a timer for SIGKILL, cleanup('cancelled')
SetupCancel ==
  /\ nCancel < MaxCancels
  /\ nCancel' = nCancel + 1
  /\ IF process # 0
     THEN /\ children' = [children EXCEPT ![process].signals = @ \cup {"SIGTERM"}]
          /\ killTimers' = killTimers + 1
          /\ cancelledProcs' = cancelledProcs \cup {process}
     ELSE UNCHANGED <<children, killTimers, cancelledProcs>>
  /\ currentState' = "cancelled"
  /\ process' = 0
  /\ outputBuffer' = <<>>
  /\ pendingUserAction' = FALSE
  /\ UNCHANGED <<recentOutput, lastInstructions, setupLog>>
  /\ UNCHANGED setupOtherVars

\* the setTimeout callback of cancel(): `if (this.process) this.process.kill('SIGKILL')`
KillTimerFire ==
  /\ killTimers > 0
  /\ killTimers' = killTimers - 1
  /\ children' = IF process # 0
                 THEN [children EXCEPT ![process].signals = @ \cup {"SIGKILL"}]
                 ELSE children
  /\ UNCHANGED <<process, currentState, outputBuffer, recentOutput, pendingUserAction,
                 lastInstructions, cancelledProcs, nCancel, setupLog>>
  /\ UNCHANGED setupOtherVars

\* continueAfterUserAction(); what the script prints next is part of its output
SetupContinue ==
  /\ process # 0
  /\ pendingUserAction
  /\ pendingUserAction' = FALSE
  /\ UNCHANGED <<process, currentState, outputBuffer, recentOutput, lastInstructions,
                 children, killTimers, cancelledProcs, nCancel, setupLog>>
  /\ UNCHANGED setupOtherVars

\* a 'data' event of stdout or stderr of child p: a chunk of what is left
ChildData(p) ==
  /\ p \in DOMAIN children
  /\ ~children[p].closed
  /\ \E k \in 1..Len(children[p].out) :
       LET chunk == SubSeq(children[p].out, 1, k)
           m == ParseOutput(Manager, chunk, p)
       IN /\ children' = [children EXCEPT
                            ![p].out = SubSeq(children[p].out, k + 1, Len(children[p].out))]
          /\ outputBuffer' = outputBuffer \o chunk
          /\ currentState' = m.state
          /\ pendingUserAction' = m.pending
          /\ recentOutput' = m.recent
          /\ lastInstructions' = m.last
          /\ setupLog' = m.log
  /\ UNCHANGED <<process, killTimers, cancelledProcs, nCancel>>
  /\ UNCHANGED setupOtherVars

\* handleError from a handler of child p: cleanup('error'), two events
HandleError(p) ==
  /\ currentState' = "error"
  /\ process' = 0
  /\ outputBuffer' = <<>>
  /\ pendingUserAction' = FALSE
  /\ setupLog' = setupLog \o
       <<[ev |-> "state-change", state |-> "error", action |-> FALSE, instr |-> "none",
          src |-> p],
         [ev |-> "error", state |-> "error", action |-> FALSE, instr |-> "none",
          src |-> p]>>

\* the 'error' event of child p
ChildError(p) ==
  /\ p \in DOMAIN children
  /\ ~children[p].closed
  /\ ~children[p].errored
  /\ children' = [children EXCEPT ![p].errored = TRUE]
  /\ HandleError(p)
  /\ UNCHANGED <<recentOutput, lastInstructions, killTimers, cancelledProcs, nCancel>>
  /\ UNCHANGED setupOtherVars

\* the 'close' event of child p, after its streams have ended
ChildClose(p) ==
  /\ p \in DOMAIN children
  /\ ~children[p].closed
  /\ \E code \in ExitCodes :
       /\ children' = [children EXCEPT ![p].closed = TRUE, ![p].code = code,
                                       ![p].out = <<>>]
       /\ IF code = "0" /\ currentState = "ready"
          THEN /\ process' = 0
               /\ UNCHANGED <<currentState, outputBuffer, pendingUserAction, setupLog>>
          ELSE IF currentState # "cancelled"
          THEN HandleError(p)
          ELSE /\ process' = 0
               /\ UNCHANGED <<currentState, outputBuffer, pendingUserAction, setupLog>>
  /\ UNCHANGED <<recentOutput, lastInstructions, killTimers, cancelledProcs, nCancel>>
  /\ UNCHANGED setupOtherVars

InitSetup ==
  /\ InitWDA /\ FrameIdle /\ InputIdle
  /\ SurfaceIdle /\ WheelIdle /\ KbIdle /\ CodecIdle
  /\ ExtraIdle

\* the scripts of the runs that are cancelled and started again
RunScripts ==
  {<<"Building", "WebDriverAgent", NL>>, <<"Press Enter to", "continue", NL>>}

NextSetup ==
  \/ SetupStart /\ children'[process'].script \in RunScripts
  \/ SetupCancel
  \/ KillTimerFire
  \/ SetupContinue
  \/ \E p \in DOMAIN children : ChildData(p)
  \/ \E p \in DOMAIN children : ChildError(p)
  \/ \E p \in DOMAIN children : ChildClose(p)

SpecSetup == InitSetup /\ [][NextSetup]_vars

\* a handler of child p runs in this step
ChildEvent(p) ==
  /\ p \in DOMAIN children
  /\ \/ children'[p].out # children[p].out
     \/ children'[p].closed # children[p].closed
     \/ children'[p].errored # children[p].errored

\* the 'error' events emitted in this step
NewErrors ==
  {i \in (Len(setupLog) + 1)..Len(setupLog') : setupLog'[i].ev = "error"}

\* C33: after cancel() and a new start(), the delayed SIGKILL timer of the
\* cancelled run does not kill the new process, and no event of the cancelled
\* child (output, close, error) changes the state of the new run or clears
\* the reference to the new process.
C33_CancelledRunIsInert ==
  /\ [][\A p \in DOMAIN children :
          "SIGKILL" \in children'[p].signals => p \in cancelledProcs]_vars
  /\ [][\A p \in cancelledProcs :
          (ChildEvent(p) /\ process # 0 /\ process # p)
            => (process' = process /\ currentState' = currentState)]_vars

\* C34: once cancel() has run the state is 'cancelled' and stays so, and no
\* 'error' event is emitted, until start() is called again.
C34_CancelledUntilStart ==
  [][(currentState = "cancelled" /\ Len(children') = Len(children))
       => (currentState' = "cancelled" /\ NewErrors = {})]_vars

\* the 'error' events emitted by the handlers of child p
ErrorsOf(p) == {i \in 1..Len(setupLog) : setupLog[i].ev = "error" /\ setupLog[i].src = p}

\* C39: a run emits the 'error' event at most once, and a run that failed
\* (its child delivered 'error', or closed with a code other than 0, without
\* cancel()) has emitted it exactly once.
C39_ErrorOnce ==
  \A p \in DOMAIN children :
    /\ Cardinality(ErrorsOf(p)) <= 1
    /\ (p \notin cancelledProcs /\ nCancel = 0
        /\ (children[p].errored \/ children[p].code \in {"1", "null"}))
         => Cardinality(ErrorsOf(p)) = 1

\* runs one after the other, each to its end, output in chunks of any size
NextChunks ==
  \/ SetupStart
  \/ \E p \in DOMAIN children : ChildData(p)
  \/ \E p \in DOMAIN children : ChildClose(p)

SpecChunks == InitSetup /\ [][NextChunks]_vars

\* the events of child p's handlers
EventsOf(p) == SelectSeq(setupLog, LAMBDA e : e.src = p)

\* C40: when the whole output of a run has been delivered, the state, the
\* pending prompt and the events derived from it are those derived from the
\* same output delivered as one chunk.
C40_ChunkingIrrelevant ==
  \A p \in DOMAIN children :
    (p = process /\ children[p].out = <<>>) =>
      LET whole == ParseOutput(Started, children[p].script, p)
      IN /\ currentState = whole.state
         /\ pendingUserAction = whole.pending
         /\ EventsOf(p) = whole.log

\* ========================================================================
\* iOSConnection: the helper process of a stream, disconnect
\* ========================================================================
streamOtherVars == <<wdaVars, inputVars, screen, wheelVars, kbVars, codecVars,
                     spsVars, reconnVars, pointerVars, appVars, kbDisposed,
                     notifyVars, setupVars>>

\* what a helper writes: one status message with one payload byte
StreamMsgs == {[type |-> MT_STATUS, payload |-> <<6>>]}

\* startStreaming (after connect): status callback, spawn, handlers
StartStreaming ==
  /\ Len(helpers) < MaxStreams
  /\ \E m \in StreamMsgs :
       helpers' = Append(helpers, [wire |-> WriteMessage(m), killed |-> FALSE,
                                   closed |-> FALSE, errored |-> FALSE])
  /\ cbLog' = Append(cbLog, [cb |-> "onStatus", data |-> <<>>])
  /\ helperProcess' = Len(helpers) + 1
  /\ connected' = TRUE
  /\ UNCHANGED <<messageBuffer, wire, sentMsgs, dispatched>>
  /\ UNCHANGED streamOtherVars

\* disconnect(); a call that finds nothing to reset is a stuttering step
StreamDisconnect ==
  /\ connected \/ helperProcess # 0 \/ messageBuffer # <<>>
  /\ connected' = FALSE
  /\ helpers' = IF helperProcess # 0
                THEN [helpers EXCEPT ![helperProcess].killed = TRUE]
                ELSE helpers
  /\ helperProcess' = 0
  /\ messageBuffer' = <<>>
  /\ UNCHANGED <<wire, sentMsgs, dispatched, cbLog>>
  /\ UNCHANGED streamOtherVars

\* stdout 'data' event of helper h: handleHelperData(chunk)
HelperStdout(h) ==
  /\ h \in DOMAIN helpers
  /\ ~helpers[h].closed
  /\ \E k \in 1..Len(helpers[h].wire) :
       LET chunk == SubSeq(helpers[h].wire, 1, k)
           res   == ParseLoop(messageBuffer \o chunk, <<>>)
       IN /\ helpers' = [helpers EXCEPT
                           ![h].wire = SubSeq(helpers[h].wire, k + 1, Len(helpers[h].wire))]
          /\ messageBuffer' = res.buf
          /\ dispatched' = dispatched \o res.out
          /\ cbLog' = cbLog \o CallbacksOf(res.out)
  /\ UNCHANGED <<wire, sentMsgs, helperProcess, connected>>
  /\ UNCHANGED streamOtherVars

\* 'error' event of helper h
HelperError(h) ==
  /\ h \in DOMAIN helpers
  /\ ~helpers[h].closed
  /\ ~helpers[h].errored
  /\ helpers' = [helpers EXCEPT ![h].errored = TRUE]
  /\ connected' = FALSE
  /\ cbLog' = Append(cbLog, [cb |-> "onError", data |-> <<>>])
  /\ UNCHANGED <<messageBuffer, wire, sentMsgs, dispatched, helperProcess>>
  /\ UNCHANGED streamOtherVars

\* 'close' event of helper h, after its streams have ended
HelperClose(h) ==
  /\ h \in DOMAIN helpers
  /\ ~helpers[h].closed
  /\ \E code \in ExitCodes :
       /\ helpers' = [helpers EXCEPT ![h].closed = TRUE, ![h].wire = <<>>]
       /\ connected' = FALSE
       /\ cbLog' = IF code # "0" /\ code # "null"
                   THEN Append(cbLog, [cb |-> "onError", data |-> <<>>])
                   ELSE cbLog
  /\ UNCHANGED <<messageBuffer, wire, sentMsgs, dispatched, helperProcess>>
  /\ UNCHANGED streamOtherVars

InitStream ==
  /\ InitWDA /\ FrameIdle /\ InputIdle
  /\ SurfaceIdle /\ WheelIdle /\ KbIdle /\ CodecIdle
  /\ ExtraIdle

NextStream ==
  \/ StartStreaming
  \/ StreamDisconnect
  \/ \E h \in DOMAIN helpers : HelperStdout(h)
  \/ \E h \in DOMAIN helpers : HelperError(h)
  \/ \E h \in DOMAIN helpers : HelperClose(h)

SpecStream == InitStream /\ [][NextStream]_vars

\* C35: events of a helper that disconnect() has killed do not affect the
\* connection: its late stdout data invokes no callback and adds nothing to
\* the message buffer, and its late close or error event does not set
\* connected to false for a stream started after the disconnect.
C35_KilledHelperIsInert ==
  [][\A h \in DOMAIN helpers :
       helpers[h].killed =>
         /\ (~helpers'[h].closed /\ helpers'[h].wire # helpers[h].wire)
              => (cbLog' = cbLog /\ messageBuffer' = messageBuffer)
         /\ ((helpers'[h].closed # helpers[h].closed
              \/ helpers'[h].errored # helpers[h].errored) /\ helperProcess # 0)
              => connected' = connected]_vars

====
